---------------------------- MODULE Spec2Model ----------------------------
(***************************************************************************)
(* A state-machine model of the contracts-caller transaction manager       *)
(* (txmgr.SimpleTxManager.Send, txmgr.WaitMined), of its SendState         *)
(* tracker, of the retry executor and its backoff strategies (retry.Do,    *)
(* retry.Strategy), of the synchronizer's header traversal                 *)
(* (node.HeaderTraversal over node.EthClient) and of the Synchronizer      *)
(* itself (NewSynchronizer, Start, processBatch).                          *)
(*                                                                         *)
(* The specifications of the module:                                       *)
(*   SpecSendState      the SendState methods called in any order;         *)
(*   SpecSendStateConc  the same methods called by several goroutines,     *)
(*                      one memory access at a time;                       *)
(*   SpecWaitMined      one standalone WaitMined call against a chain;     *)
(*   SpecSend           one Send call with its attempt goroutines, against *)
(*                      any backend;                                       *)
(*   SpecSendFair       one Send call against the tests' backend, under    *)
(*                      fair scheduling;                                   *)
(*   SpecRetry          one call of retry.Do;                              *)
(*   SpecStrategy       one call of Strategy.Duration;                     *)
(*   SpecUsage          the constructors and calls with arguments that are *)
(*                      usage errors;                                      *)
(*   SpecTraversal      NextHeaders called again and again against a node  *)
(*                      whose chain grows and reorganises;                 *)
(*   SpecSynchronizer   one Synchronizer, created and started, against     *)
(*                      the same node and a database;                      *)
(*   SpecPersist        the retry.Do call of processBatch with its         *)
(*                      strategy, in nanoseconds;                          *)
(*   SpecSynchronizerClose  SpecSynchronizer with calls of Close;          *)
(*   SpecSynchronizerFair   SpecSynchronizer under fair scheduling.        *)
(* They share one list of variables; the part a specification does not use *)
(* stays at its idle value.                                                *)
(*                                                                         *)
(* Block heights, confirmation counts and the nonce-too-low counter are    *)
(* uint64 in the source; every value the model reaches is bounded far      *)
(* below 2^64, so they are modelled as naturals.                           *)
(***************************************************************************)
EXTENDS Integers, Sequences, FiniteSets, TLC

(***************************************************************************)
(* Bounds of the model.                                                    *)
(***************************************************************************)
\* Transaction hashes are 1..NumHashes.
NumHashes == 2
\* Largest abort threshold (SafeAbortNonceTooLowCount) a SendState is built with.
MaxThreshold == 3
\* Number of SendState method calls made in SpecSendState.
MaxCalls == 6
\* Highest block the chain reaches.
MaxHeight == 2
\* Largest number of confirmations asked for.
MaxConfs == 2

\* Number of attempt goroutines one Send call launches.
MaxAttempts == 2

\* Number of goroutines that call one SendState at the same time.
NumCallers == 2
\* Number of SendState calls the goroutines of SpecSendStateConc make in all.
MaxConcCalls == 3

\* Largest maxAttempts Do is called with.
MaxDoAttempts == 3
\* Longest fixed sleep and largest ExponentialStrategy.Max, in seconds.
MaxDur == 2
\* Largest ExponentialStrategy.Min, Max and MaxJitter, in seconds, and the
\* largest attempt Duration is called with.
MaxMinSecs == 2
MaxMaxSecs == 5
MaxJitterSecs == 2
MaxAttemptIndex == 3
\* Largest block number of the node's chain, number of distinct blocks the
\* node can hold at one height, largest confirmation depth and largest
\* maxSize of a NextHeaders call.
MaxChainHeight == 2
NumSalts == 2
MaxDepth == 1
MaxBatch == 2
\* Largest starting height (Chain.StartingHeight) a Synchronizer is configured with.
MaxStart == 1

Hashes == 1..NumHashes
Callers == 1..NumCallers
Attempts == 1..MaxAttempts
\* The priced variants of the one transaction a Send or WaitMined call is
\* about: they share a nonce and differ in fees, so in hash; attempt a prices
\* variant a.
Variants == Attempts

(***************************************************************************)
(* Errors.  An error is its identity and its message; the message is a     *)
(* sequence of words, so that strings.Contains is a real substring test.   *)
(***************************************************************************)
NilErr == [id |-> "nil", msg |-> << >>]
\* core.ErrNonceTooLow
ErrNonceTooLow == [id |-> "ErrNonceTooLow", msg |-> <<"nonce", "too", "low">>]
\* an RPC error that wraps core.ErrNonceTooLow's text
ErrRpcNonceTooLow == [id |-> "ErrRpcNonceTooLow",
                      msg |-> <<"rpc", "nonce", "too", "low">>]
\* errors.New("other error") / errRpcFailure
ErrOther == [id |-> "ErrOther", msg |-> <<"other", "error">>]
\* an error that only shares a prefix with core.ErrNonceTooLow
ErrNonceTooHigh == [id |-> "ErrNonceTooHigh", msg |-> <<"nonce", "too", "high">>]
\* context.Canceled
ErrCanceled == [id |-> "Canceled", msg |-> <<"context", "canceled">>]
\* an RPC error that wraps context.Canceled's text
ErrRpcCanceled == [id |-> "ErrRpcCanceled",
                   msg |-> <<"rpc", "context", "canceled">>]
\* context.DeadlineExceeded
ErrDeadlineExceeded == [id |-> "DeadlineExceeded",
                        msg |-> <<"context", "deadline", "exceeded">>]

\* strings.Contains on word sequences
Contains(s, sub) ==
    \E i \in 0..(Len(s) - Len(sub)) : SubSeq(s, i + 1, i + Len(sub)) = sub

(***************************************************************************)
(* SendState (send_state.go).  A SendState is the record of its fields;    *)
(* every method is a function from the state before to the state after,    *)
(* which is what the method does under its mutex.                          *)
(***************************************************************************)
\* Mutant: a zero threshold is accepted.
NewSendStatePanics_Never(safeAbortNonceTooLowCount) ==
    FALSE

\* if safeAbortNonceTooLowCount == 0 { panic(...) }
NewSendStatePanics(safeAbortNonceTooLowCount) ==
    safeAbortNonceTooLowCount = 0

NewSendState(threshold) ==
    [minedTxs |-> {},
     nonceTooLowCount |-> 0,
     safeAbortNonceTooLowCount |-> threshold]

\* Mutant: every non-nil error counts as nonce-too-low.
ProcessSendError_CountsAnyError(s, err) ==
    IF err = NilErr
    THEN s
    ELSE [s EXCEPT !.nonceTooLowCount = @ + 1]

ProcessSendError(s, err) ==
    IF err = NilErr
    THEN s
    ELSE IF ~Contains(err.msg, ErrNonceTooLow.msg)
         THEN s
         ELSE [s EXCEPT !.nonceTooLowCount = @ + 1]

TxMined(s, txHash) ==
    [s EXCEPT !.minedTxs = @ \cup {txHash}]

\* Mutant: the counter is reset whenever the set is empty after the removal.
TxNotMined_ResetsWheneverEmpty(s, txHash) ==
    LET after == s.minedTxs \ {txHash}
    IN  IF Cardinality(after) = 0
        THEN [s EXCEPT !.minedTxs = after, !.nonceTooLowCount = 0]
        ELSE [s EXCEPT !.minedTxs = after]

\* Mutant: unmining one hash forgets every mined hash.
TxNotMined_ClearsAll(s, txHash) ==
    LET wasMined == txHash \in s.minedTxs
    IN  IF wasMined
        THEN [s EXCEPT !.minedTxs = {}, !.nonceTooLowCount = 0]
        ELSE s

TxNotMined(s, txHash) ==
    LET wasMined == txHash \in s.minedTxs
        after == s.minedTxs \ {txHash}
    IN  IF Cardinality(after) = 0 /\ wasMined
        THEN [s EXCEPT !.minedTxs = after, !.nonceTooLowCount = 0]
        ELSE [s EXCEPT !.minedTxs = after]

\* Mutant: the mined set is not consulted.
ShouldAbortImmediately_IgnoresMined(s) ==
    s.nonceTooLowCount >= s.safeAbortNonceTooLowCount

ShouldAbortImmediately(s) ==
    IF Cardinality(s.minedTxs) > 0
    THEN FALSE
    ELSE s.nonceTooLowCount >= s.safeAbortNonceTooLowCount

\* Mutant: the SendState always reports a mined transaction.
IsWaitingForConfirmation_Always(s) ==
    TRUE

IsWaitingForConfirmation(s) ==
    Cardinality(s.minedTxs) > 0

(***************************************************************************)
(* waitMined (txmgr.go).  A call is the record [pc, tx, receipt, err] of   *)
(* its position and locals; pc is "receipt" (calling TransactionReceipt),  *)
(* "blocknum" (calling BlockNumber), "select" (in the select on ctx.Done   *)
(* and the query ticker) or "returned" (with receipt and err as results).  *)
(***************************************************************************)
\* a nil *SendState: WaitMined passes it, and waitMined then tracks nothing
NilSendState ==
    [minedTxs |-> {}, nonceTooLowCount |-> 0, safeAbortNonceTooLowCount |-> 0]

\* a nil *types.Receipt
NilReceipt == [TxHash |-> 0, BlockNumber |-> 0]

\* What ReceiptSource.TransactionReceipt can answer for txHash when the
\* chain holds it in block at (0: not mined): the receipt, or (nil, nil),
\* or a failure of the call.
ReceiptAnswers(txHash, at) ==
    {[receipt |-> IF at = 0 THEN NilReceipt
                  ELSE [TxHash |-> txHash, BlockNumber |-> at],
      err |-> NilErr],
     [receipt |-> NilReceipt, err |-> ErrOther]}

\* What ReceiptSource.BlockNumber can answer when the tip is at height tip.
BlockNumberAnswers(tip) ==
    {[height |-> tip, err |-> NilErr], [height |-> 0, err |-> ErrOther]}

\* Mutant: one confirmation more than asked for is required.
Confirmed_OffByOne(txHeight, tipHeight, confs) ==
    txHeight + confs <= tipHeight

\* the confirmation test of waitMined
Confirmed(txHeight, tipHeight, confs) ==
    txHeight + confs <= tipHeight + 1

\* a goroutine or call that has not started
IdleTask == [pc |-> "idle", tx |-> 0, receipt |-> NilReceipt, err |-> NilErr]

\* a goroutine that has returned
DoneTask == [pc |-> "done", tx |-> 0, receipt |-> NilReceipt, err |-> NilErr]

\* the call of waitMined: the ticker is made and the first query is due
StartWaitMined(txHash) ==
    [pc |-> "receipt", tx |-> txHash, receipt |-> NilReceipt, err |-> NilErr]

\* the switch on TransactionReceipt's answer a: the call's next position
AfterReceipt(w, a) ==
    IF a.receipt # NilReceipt
    THEN [w EXCEPT !.pc = "blocknum", !.receipt = a.receipt, !.err = a.err]
    ELSE [w EXCEPT !.pc = "select", !.receipt = NilReceipt, !.err = a.err]

\* Mutant: a failed receipt query is reported as a transaction not mined.
TrackReceipt_ErrorUnmines(s, txHash, a) ==
    IF a.receipt # NilReceipt
    THEN IF s # NilSendState THEN TxMined(s, txHash) ELSE s
    ELSE IF s # NilSendState THEN TxNotMined(s, txHash) ELSE s

\* the switch on TransactionReceipt's answer a: what is reported to SendState s
TrackReceipt(s, txHash, a) ==
    IF a.receipt # NilReceipt
    THEN IF s # NilSendState THEN TxMined(s, txHash) ELSE s
    ELSE IF a.err # NilErr
         THEN s
         ELSE IF s # NilSendState THEN TxNotMined(s, txHash) ELSE s

\* BlockNumber answered b while the call holds a receipt
AfterBlockNumber(w, b, confs) ==
    IF b.err # NilErr
    THEN [w EXCEPT !.pc = "select", !.receipt = NilReceipt, !.err = b.err]
    ELSE IF Confirmed(w.receipt.BlockNumber, b.height, confs)
         THEN [w EXCEPT !.pc = "returned", !.err = NilErr]
         ELSE [w EXCEPT !.pc = "select", !.receipt = NilReceipt]

\* the select took <-ctx.Done()
AfterCtxDone(w, cerr) ==
    [w EXCEPT !.pc = "returned", !.receipt = NilReceipt, !.err = cerr]

\* the select took <-queryTicker.C
AfterQueryTick(w) ==
    [w EXCEPT !.pc = "receipt"]

(***************************************************************************)
(* SimpleTxManager.Send (txmgr.go): the pieces of it that are functions.   *)
(***************************************************************************)
\* err == context.Canceled || strings.Contains(err.Error(), "context canceled")
IsCancelErr(err) ==
    err = ErrCanceled \/ Contains(err.msg, <<"context", "canceled">>)

\* Mutant: cancel() leaves the derived context as it is.
Cancel_Keeps(cerr) ==
    cerr

\* cancel(): the derived context is done from now on; its first error stays
Cancel(cerr) ==
    IF cerr = NilErr THEN ErrCanceled ELSE cerr

\* Mutant: the channel takes every receipt offered.
Offer_Unbounded(ch, receipt) ==
    Append(ch, receipt)

\* select { case receiptChan <- receipt: default: } on a channel of capacity 1
Offer(ch, receipt) ==
    IF Len(ch) < 1 THEN Append(ch, receipt) ELSE ch

\* Mutant: Send does not wait for its goroutines.
WaitGroupDone_NoWait(n) ==
    TRUE

\* wg.Wait() returns
WaitGroupDone(n) ==
    n = 0

\* Mutant: every send error that is not a cancellation aborts.
AbortDue_OnAnyError(s) ==
    TRUE

\* Mutant: a nonce-too-low count at the threshold aborts, mined or not.
AbortDue_CountOnly(s) ==
    s.nonceTooLowCount >= s.safeAbortNonceTooLowCount

\* the abort decision of sendTxAsync after a send error
AbortDue(s) ==
    ShouldAbortImmediately(s)

\* errors updateGasPrice returns
PriceErrors == {ErrOther, ErrCanceled}
\* errors sendTx returns
SendTxErrors == {ErrOther, ErrNonceTooLow, ErrCanceled}

(***************************************************************************)
(* State.                                                                  *)
(***************************************************************************)
VARIABLES
    sendState,      \* the SendState of the call under way (NilSendState: none)
    calls,          \* SpecSendState: number of SendState calls made so far
    lastCall,       \* SpecSendState: the last call, [op, err, hash]
    nonceTooLowSeen,\* SpecSendState: nonce-too-low class errors reported so far
    freshNonceTooLow,\* SpecSendState: the same, since the last mined tx was unmined
    marks,          \* SpecSendState: per hash, the last of TxMined / TxNotMined
    remined,        \* SpecSendState: hashes marked mined while already marked mined
    blockHeight,    \* the backend: height of the chain tip
    minedAt,        \* the backend: per hash, the block holding its receipt (0: none)
    pending,        \* the backend: hashes accepted by sendTx
    ctxErr,         \* Err() of the caller's context (NilErr: not done)
    numConfirmations, \* the numConfirmations argument / Config.NumConfirmations
    wm,             \* SpecWaitMined: the WaitMined call, [pc, tx, receipt, err]
    threshold,      \* Send: Config.SafeAbortNonceTooLowCount
    ctxcErr,        \* Send: Err() of the derived context ctxc (NilErr: not done)
    pcSend,         \* Send: position of the Send call itself
    task,           \* Send: per attempt, sendTxAsync's [pc, tx, receipt, err]
    wg,             \* Send: the WaitGroup's counter
    receiptChan,    \* Send: the buffered channel of capacity 1
    ret,            \* Send: what Send returns, [receipt, err]
    mineAtEpoch,    \* Send: the variant the tests' gasPricer has mined (0: none)
    dropped,        \* Send: receipts the hand-off dropped so far
    mu,             \* SpecSendStateConc: SendState.mu, [writer, readers]
    caller,         \* SpecSendStateConc: per goroutine, its SendState call
    linear,         \* SpecSendStateConc: the calls applied one at a time, in lock order
    concCalls,      \* SpecSendStateConc: number of calls started so far
    do,             \* retry.Do: the call, [pc, maxAttempts, i, ret, err, remaining]
    doCtx,          \* retry.Do: Err() of its context (NilErr: not done)
    strategy,       \* retry.Do: its Strategy
    opLog,          \* retry.Do: the outcome of each invocation of op, in order
    sleeps,         \* SpecRetry: the [i, dur] of each time.Sleep started, in order
    duration,       \* Strategy.Duration: the call, [pc, attempt, jitter, dur]
    chain,          \* the node: the headers of its canonical chain, by height
    latestHeader,   \* HeaderTraversal.latestHeader (NilHeader: nil)
    lastTraversedHeader, \* HeaderTraversal.lastTraversedHeader (NilHeader: nil)
    blockConfirmationDepth, \* HeaderTraversal.blockConfirmationDepth
    nh,             \* NextHeaders: the call, [pc, maxSize, start, end, count, headers,
                    \* answered, fetched, ret, err]; fetched is what
                    \* BlockHeadersByRange returned, once answered
    cfg,            \* Synchronizer: cfg.Chain, [blockStep, startingHeight]
    syncer,         \* Synchronizer: [pc, headers, batch, logs, attempt, retrying, err,
                    \* closed]; closed tells that Close has been called
    db,             \* Synchronizer: the committed transactions, [headers, events] each
    crit            \* Synchronizer: the errors handed to tasks.Group.HandleCrit

histVars == <<calls, lastCall, nonceTooLowSeen, freshNonceTooLow, marks, remined>>
chainVars == <<blockHeight, minedAt, pending>>
wmVars == <<ctxErr, numConfirmations, wm>>
sendOwn == <<threshold, ctxcErr, pcSend, task, wg, receiptChan, ret,
             mineAtEpoch, dropped>>
lockVars == <<mu, caller, linear, concCalls>>
retryVars == <<do, doCtx, strategy, opLog, sleeps>>
\* the state of the synchronizer's other components
traversalVars == <<chain, latestHeader, lastTraversedHeader,
                   blockConfirmationDepth, nh>>
synchronizerVars == <<cfg, syncer, db, crit>>
syncVars == <<duration, traversalVars, synchronizerVars>>
\* the state of the other components
restVars == <<lockVars, retryVars, syncVars>>
sendVars == <<sendOwn, restVars>>
\* the state of the transaction manager
txmgrVars == <<histVars, chainVars, wmVars, sendOwn>>
\* what no step of SpecSendStateConc changes
concFrame == <<txmgrVars, retryVars, syncVars>>
\* what no step of retry.Do changes
retryFrame == <<sendState, txmgrVars, lockVars, syncVars>>
\* what no call of Strategy.Duration changes
durationFrame == <<sendState, txmgrVars, lockVars, do, doCtx, opLog, sleeps,
                   traversalVars, synchronizerVars>>
\* what no step of HeaderTraversal or of the node changes
traversalFrame == <<sendState, txmgrVars, lockVars, retryVars, duration,
                    synchronizerVars>>
vars == <<sendState, histVars, chainVars, wmVars, sendVars>>

(***************************************************************************)
(* SpecSendState: the methods of one SendState called in any order, as the *)
(* unit tests of send_state_test.go call them.                             *)
(***************************************************************************)
SendErrors == {NilErr, ErrNonceTooLow, ErrRpcNonceTooLow, ErrOther,
               ErrNonceTooHigh, ErrCanceled}

\* The errors of the nonce-too-low class, named one by one.
NonceTooLowClass == {ErrNonceTooLow, ErrRpcNonceTooLow}

NoCall == [op |-> "none", err |-> NilErr, hash |-> 0]

\* The parts of the state a specification does not use stay as they are here.
IdleHist ==
    /\ calls = 0
    /\ lastCall = NoCall
    /\ nonceTooLowSeen = 0
    /\ freshNonceTooLow = 0
    /\ marks = [h \in Hashes |-> "none"]
    /\ remined = {}

IdleChain ==
    /\ blockHeight = 0
    /\ minedAt = [h \in Variants |-> 0]
    /\ pending = {}

IdleWaitMined ==
    /\ ctxErr = NilErr
    /\ numConfirmations = 1
    /\ wm = IdleTask

NoResult == [receipt |-> NilReceipt, err |-> NilErr]

IdleSend ==
    /\ threshold = 1
    /\ ctxcErr = NilErr
    /\ pcSend = "idle"
    /\ task = [a \in Attempts |-> IdleTask]
    /\ wg = 0
    /\ receiptChan = << >>
    /\ ret = NoResult
    /\ mineAtEpoch = 0
    /\ dropped = 0

\* a goroutine that is in no SendState call
IdleCaller == [pc |-> "idle", op |-> "none", hash |-> 0, read |-> 0,
               wasMined |-> FALSE, result |-> FALSE]

NoLock == [writer |-> 0, readers |-> {}]

IdleLock ==
    /\ mu = NoLock
    /\ caller = [p \in Callers |-> IdleCaller]
    /\ linear = NilSendState
    /\ concCalls = 0

\* no Do call: the zero values
IdleDo == [pc |-> "idle", maxAttempts |-> 0, i |-> 0, ret |-> 0, err |-> NilErr,
           remaining |-> 0]

\* retry.Fixed(0)
NoStrategy == [kind |-> "fixed", Dur |-> 0, Min |-> 0, Max |-> 0, MaxJitter |-> 0]

IdleRetry ==
    /\ do = IdleDo
    /\ doCtx = NilErr
    /\ strategy = NoStrategy
    /\ opLog = << >>
    /\ sleeps = << >>

\* no call of Strategy.Duration
IdleDuration == [pc |-> "idle", attempt |-> 0, jitter |-> 0, dur |-> 0]

\* the zero hash
ZeroHash == << >>

\* the number of a header whose Number is nil
NilNumber == 0 - 1

\* a nil *types.Header
NilHeader == [number |-> NilNumber, salt |-> 0 - 1, parentHash |-> ZeroHash]

\* types.Header{}: what a slot of the headers slice holds when the node's
\* answer for it was null or an error
ZeroHeader == [number |-> NilNumber, salt |-> 0, parentHash |-> ZeroHash]

\* no call of NextHeaders
IdleNextHeaders ==
    [pc |-> "idle", maxSize |-> 0, start |-> 0, end |-> 0, count |-> 0,
     headers |-> << >>, answered |-> FALSE, fetched |-> << >>,
     ret |-> << >>, err |-> NilErr]

IdleTraversal ==
    /\ chain = << >>
    /\ latestHeader = NilHeader
    /\ lastTraversedHeader = NilHeader
    /\ blockConfirmationDepth = 0
    /\ nh = IdleNextHeaders

\* no FilterLogs result
NoLogs == [logs |-> << >>, toBlockHeader |-> NilHeader]

\* no Synchronizer
IdleSyncer ==
    [pc |-> "none", headers |-> << >>, batch |-> << >>, logs |-> NoLogs,
     attempt |-> 0, retrying |-> FALSE, err |-> NilErr, closed |-> FALSE]

IdleSynchronizer ==
    /\ cfg = [blockStep |-> 0, startingHeight |-> 0]
    /\ syncer = IdleSyncer
    /\ db = << >>
    /\ crit = << >>

IdleSync ==
    /\ duration = IdleDuration
    /\ IdleTraversal
    /\ IdleSynchronizer

IdleRest ==
    /\ IdleLock
    /\ IdleRetry
    /\ IdleSync

InitSendState ==
    /\ \E t \in 1..MaxThreshold : sendState = NewSendState(t)
    /\ calls = 0
    /\ lastCall = NoCall
    /\ nonceTooLowSeen = 0
    /\ freshNonceTooLow = 0
    /\ marks = [h \in Hashes |-> "none"]
    /\ remined = {}
    /\ IdleChain
    /\ IdleWaitMined
    /\ IdleSend
    /\ IdleRest

CallProcessSendError ==
    \E err \in SendErrors :
        /\ calls < MaxCalls
        /\ sendState' = ProcessSendError(sendState, err)
        /\ calls' = calls + 1
        /\ lastCall' = [op |-> "ProcessSendError", err |-> err, hash |-> 0]
        /\ nonceTooLowSeen' =
               IF err \in NonceTooLowClass THEN nonceTooLowSeen + 1
               ELSE nonceTooLowSeen
        /\ freshNonceTooLow' =
               IF err \in NonceTooLowClass THEN freshNonceTooLow + 1
               ELSE freshNonceTooLow
        /\ UNCHANGED <<marks, remined, chainVars, wmVars, sendVars>>

CallTxMined ==
    \E h \in Hashes :
        /\ calls < MaxCalls
        /\ sendState' = TxMined(sendState, h)
        /\ calls' = calls + 1
        /\ lastCall' = [op |-> "TxMined", err |-> NilErr, hash |-> h]
        /\ marks' = [marks EXCEPT ![h] = "mined"]
        /\ remined' = IF marks[h] = "mined" THEN remined \cup {h} ELSE remined
        /\ UNCHANGED <<nonceTooLowSeen, freshNonceTooLow, chainVars, wmVars, sendVars>>

\* TxNotMined(h) unmines the last mined tx when h is marked mined and no
\* other hash is.
UnminesLast(h) ==
    /\ marks[h] = "mined"
    /\ \A g \in Hashes \ {h} : marks[g] # "mined"

CallTxNotMined ==
    \E h \in Hashes :
        /\ calls < MaxCalls
        /\ sendState' = TxNotMined(sendState, h)
        /\ calls' = calls + 1
        /\ lastCall' = [op |-> "TxNotMined", err |-> NilErr, hash |-> h]
        /\ marks' = [marks EXCEPT ![h] = IF @ = "none" THEN "none" ELSE "unmined"]
        /\ freshNonceTooLow' = IF UnminesLast(h) THEN 0 ELSE freshNonceTooLow
        /\ UNCHANGED <<nonceTooLowSeen, remined, chainVars, wmVars, sendVars>>

NextSendState ==
    \/ CallProcessSendError
    \/ CallTxMined
    \/ CallTxNotMined

SpecSendState == InitSendState /\ [][NextSendState]_vars

AnyMarkedMined == \E h \in Hashes : marks[h] = "mined"
TxMinedNeverCalled == \A h \in Hashes : marks[h] = "none"
Threshold == sendState.safeAbortNonceTooLowCount
Stepped(op) == calls' = calls + 1 /\ lastCall'.op = op

(***************************************************************************)
(* C7  SendState abort law.  While TxMined has never been called,          *)
(* ShouldAbortImmediately() is true exactly when at least T of the         *)
(* ProcessSendError calls made so far carried a nonce-too-low class error; *)
(* a call with a nil error or an error of another class leaves the         *)
(* SendState as it was.                                                    *)
(***************************************************************************)
C7_AbortLaw ==
    /\ [](TxMinedNeverCalled =>
            (ShouldAbortImmediately(sendState) <=> nonceTooLowSeen >= Threshold))
    /\ [][(Stepped("ProcessSendError") /\ lastCall'.err \notin NonceTooLowClass)
            => sendState' = sendState]_vars

\* Threshold 3: the third nonce-too-low error has just made the abort due,
\* after calls with other errors that did not count.
C7_Witness ==
    /\ TxMinedNeverCalled
    /\ Threshold = 3
    /\ nonceTooLowSeen = 3
    /\ calls > 3
    /\ lastCall.op = "ProcessSendError"
    /\ lastCall.err \in NonceTooLowClass
    /\ ShouldAbortImmediately(sendState)

(***************************************************************************)
(* C8  Whenever the mined set is non-empty (some hash was marked mined and *)
(* not unmined since), ShouldAbortImmediately() is false, whatever the     *)
(* nonce-too-low counter holds.                                            *)
(***************************************************************************)
C8_MinedOverridesAbort ==
    (sendState.minedTxs # {} \/ AnyMarkedMined)
        => ~ShouldAbortImmediately(sendState)

\* A hash is mined, the counter has reached the threshold, and the last
\* nonce-too-low error came after the TxMined call.
C8_Witness ==
    /\ sendState.minedTxs # {}
    /\ sendState.nonceTooLowCount >= Threshold
    /\ lastCall.op = "ProcessSendError"
    /\ lastCall.err \in NonceTooLowClass
    /\ ~ShouldAbortImmediately(sendState)

(***************************************************************************)
(* C9  TxNotMined(h) sets the counter to 0 exactly when h was mined and no *)
(* other hash is; otherwise the counter keeps its value.  Hence the        *)
(* counter always equals the number of nonce-too-low errors reported since *)
(* the last mined tx was unmined (T fresh errors are needed after a        *)
(* reset), and TxNotMined never cancels an abort that is due.              *)
(***************************************************************************)
C9_TxNotMinedFrame ==
    /\ [][Stepped("TxNotMined") =>
            /\ sendState'.nonceTooLowCount =
                   IF UnminesLast(lastCall'.hash) THEN 0
                   ELSE sendState.nonceTooLowCount
            /\ sendState'.minedTxs = sendState.minedTxs \ {lastCall'.hash}]_vars
    /\ [](sendState.nonceTooLowCount = freshNonceTooLow)
    /\ [](ShouldAbortImmediately(sendState) =>
            (~AnyMarkedMined /\ freshNonceTooLow >= Threshold))
    /\ [][(Stepped("TxNotMined") /\ ShouldAbortImmediately(sendState))
            => ShouldAbortImmediately(sendState')]_vars

\* The last mined tx has just been unmined and errors counted before it
\* were forgotten.
C9_Witness ==
    /\ lastCall.op = "TxNotMined"
    /\ marks[lastCall.hash] = "unmined"
    /\ ~AnyMarkedMined
    /\ nonceTooLowSeen >= Threshold
    /\ sendState.nonceTooLowCount = 0
    /\ ~ShouldAbortImmediately(sendState)

(***************************************************************************)
(* C10  IsWaitingForConfirmation() is true exactly when some hash has been *)
(* marked mined and not marked not-mined since.                            *)
(***************************************************************************)
C10_WaitingIffMined ==
    IsWaitingForConfirmation(sendState) <=> AnyMarkedMined

\* A hash marked mined twice and then unmined once; another hash was mined
\* and unmined too; the state no longer waits.
C10_Witness ==
    /\ \E h \in Hashes : h \in remined /\ marks[h] = "unmined"
    /\ \A h \in Hashes : marks[h] = "unmined"
    /\ ~IsWaitingForConfirmation(sendState)

(***************************************************************************)
(* The backend (ReceiptSource) as the tests' mockBackend drives it: a      *)
(* block is mined, with or without one of the eligible transactions in    *)
(* it; a reorganisation drops a transaction's receipt.                     *)
(***************************************************************************)
MineBlock(eligible) ==
    /\ blockHeight < MaxHeight
    /\ blockHeight' = blockHeight + 1
    /\ \/ UNCHANGED minedAt
       \/ \E h \in eligible :
             /\ \A g \in Variants : minedAt[g] = 0
             /\ minedAt' = [minedAt EXCEPT ![h] = blockHeight + 1]
    /\ UNCHANGED pending

Reorg ==
    \E h \in Variants :
        /\ minedAt[h] > 0
        /\ minedAt' = [minedAt EXCEPT ![h] = 0]
        /\ UNCHANGED <<blockHeight, pending>>

\* The caller's context ends: it is cancelled, or its deadline passes.
CtxEnds ==
    /\ ctxErr = NilErr
    /\ ctxErr' \in {ErrCanceled, ErrDeadlineExceeded}

(***************************************************************************)
(* SpecWaitMined: one call WaitMined(ctx, backend, tx, interval, confs),   *)
(* which is waitMined with a nil SendState.                                *)
(***************************************************************************)
InitWaitMined ==
    /\ sendState = NilSendState
    /\ IdleHist
    /\ IdleChain
    /\ ctxErr = NilErr
    /\ numConfirmations \in 0..MaxConfs
    /\ wm = StartWaitMined(1)
    /\ IdleSend
    /\ IdleRest

WMReceipt ==
    /\ wm.pc = "receipt"
    /\ \E a \in ReceiptAnswers(wm.tx, minedAt[wm.tx]) :
          /\ wm' = AfterReceipt(wm, a)
          /\ sendState' = TrackReceipt(sendState, wm.tx, a)
    /\ UNCHANGED <<histVars, chainVars, ctxErr, numConfirmations, sendVars>>

WMBlockNumber ==
    /\ wm.pc = "blocknum"
    /\ \E b \in BlockNumberAnswers(blockHeight) :
          wm' = AfterBlockNumber(wm, b, numConfirmations)
    /\ UNCHANGED <<sendState, histVars, chainVars, ctxErr, numConfirmations, sendVars>>

WMCtxDone ==
    /\ wm.pc = "select"
    /\ ctxErr # NilErr
    /\ wm' = AfterCtxDone(wm, ctxErr)
    /\ UNCHANGED <<sendState, histVars, chainVars, ctxErr, numConfirmations, sendVars>>

WMQueryTick ==
    /\ wm.pc = "select"
    /\ wm' = AfterQueryTick(wm)
    /\ UNCHANGED <<sendState, histVars, chainVars, ctxErr, numConfirmations, sendVars>>

WMMineBlock ==
    /\ MineBlock({wm.tx})
    /\ UNCHANGED <<sendState, histVars, wmVars, sendVars>>

WMReorg ==
    /\ Reorg
    /\ UNCHANGED <<sendState, histVars, wmVars, sendVars>>

WMCtxEnds ==
    /\ CtxEnds
    /\ UNCHANGED <<sendState, histVars, chainVars, numConfirmations, wm, sendVars>>

NextWaitMined ==
    \/ WMReceipt
    \/ WMBlockNumber
    \/ WMCtxDone
    \/ WMQueryTick
    \/ WMMineBlock
    \/ WMReorg
    \/ WMCtxEnds

SpecWaitMined == InitWaitMined /\ [][NextWaitMined]_vars

(***************************************************************************)
(* C3  Confirmation wait law.  WaitMined with numConfirmations = c returns *)
(* a receipt only from a poll that found the receipt and read a tip with   *)
(* txBlock + c <= tip + 1, and such a poll does return it; a poll that     *)
(* finds the receipt while tip < txBlock + c - 1 goes back to waiting; the *)
(* only other return is (nil, ctx.Err()) once the context has ended.       *)
(***************************************************************************)
C3_ConfirmationWaitLaw ==
    /\ [][(wm.pc # "returned" /\ wm'.pc = "returned" /\ wm'.receipt # NilReceipt)
            => /\ wm.pc = "blocknum"
               /\ wm'.receipt = wm.receipt
               /\ wm'.receipt.TxHash = wm.tx
               /\ wm'.err = NilErr
               /\ wm.receipt.BlockNumber + numConfirmations <= blockHeight + 1]_vars
    /\ [][(wm.pc = "blocknum" /\ wm'.pc # "blocknum")
            => IF blockHeight < wm.receipt.BlockNumber + numConfirmations - 1
               THEN wm'.pc = "select"
               ELSE wm'.pc = "returned" \/ (wm'.pc = "select" /\ wm'.err # NilErr)]_vars
    /\ [][(wm.pc # "returned" /\ wm'.pc = "returned" /\ wm'.receipt = NilReceipt)
            => /\ wm.pc = "select"
               /\ ctxErr # NilErr
               /\ wm'.err = ctxErr]_vars
    /\ [][wm.pc = "select" => wm'.pc \in {"select", "receipt", "returned"}]_vars
    /\ [][wm.pc = "returned" => wm' = wm]_vars

\* A transaction mined in the tip block is confirmed at once with c = 1.
C3_Witness ==
    /\ wm.pc = "returned"
    /\ wm.receipt # NilReceipt
    /\ numConfirmations = 1
    /\ wm.receipt.BlockNumber = blockHeight
    /\ minedAt[wm.tx] = blockHeight
    /\ ctxErr = NilErr

(***************************************************************************)
(* One call of SimpleTxManager.Send.  The Send call itself is at "start",  *)
(* "select" (in its select loop), "wgwait" (it has its result, has run the *)
(* deferred cancel and is in the deferred wg.Wait) or "returned".  An      *)
(* attempt (sendTxAsync) is at "idle" (not launched), "price" (calling     *)
(* updateGasPrice), "send" (calling sendTx), "abort" (handling a send      *)
(* error), in waitMined ("receipt", "blocknum", "select", "returned") or   *)
(* "done".                                                                 *)
(***************************************************************************)
\* what no step of a Send call changes
sendFrame == <<calls, lastCall, freshNonceTooLow, marks, remined, wm,
               numConfirmations, threshold, mineAtEpoch, restVars>>

\* the attempt a tick launches: the first one not launched yet
NextAttempt == CHOOSE a \in Attempts :
    task[a].pc = "idle" /\ \A b \in Attempts : b < a => task[b].pc # "idle"

\* sendTxAsync returns: the deferred wg.Done()
Finish(a) ==
    /\ task' = [task EXCEPT ![a] = DoneTask]
    /\ wg' = wg - 1

SendStart ==
    /\ pcSend = "start"
    /\ ~NewSendStatePanics(threshold)
    /\ ctxcErr' = ctxErr
    /\ sendState' = NewSendState(threshold)
    /\ wg' = wg + 1
    /\ task' = [task EXCEPT ![1] = [@ EXCEPT !.pc = "price"]]
    /\ pcSend' = "select"
    /\ UNCHANGED <<sendFrame, nonceTooLowSeen, chainVars, ctxErr, receiptChan,
                   ret, dropped>>

SendTick ==
    /\ pcSend = "select"
    /\ \E a \in Attempts : task[a].pc = "idle"
    /\ IF IsWaitingForConfirmation(sendState)
       THEN UNCHANGED <<wg, task>>
       ELSE /\ wg' = wg + 1
            /\ task' = [task EXCEPT ![NextAttempt] = [@ EXCEPT !.pc = "price"]]
    /\ UNCHANGED <<sendFrame, sendState, nonceTooLowSeen, chainVars, ctxErr,
                   ctxcErr, pcSend, receiptChan, ret, dropped>>

SendCtxDone ==
    /\ pcSend = "select"
    /\ ctxcErr # NilErr
    /\ ret' = [receipt |-> NilReceipt, err |-> ctxcErr]
    /\ ctxcErr' = Cancel(ctxcErr)
    /\ pcSend' = "wgwait"
    /\ UNCHANGED <<sendFrame, sendState, nonceTooLowSeen, chainVars, ctxErr,
                   task, wg, receiptChan, dropped>>

SendReceive ==
    /\ pcSend = "select"
    /\ Len(receiptChan) > 0
    /\ ret' = [receipt |-> Head(receiptChan), err |-> NilErr]
    /\ receiptChan' = Tail(receiptChan)
    /\ ctxcErr' = Cancel(ctxcErr)
    /\ pcSend' = "wgwait"
    /\ UNCHANGED <<sendFrame, sendState, nonceTooLowSeen, chainVars, ctxErr,
                   task, wg, dropped>>

SendWgWait ==
    /\ pcSend = "wgwait"
    /\ WaitGroupDone(wg)
    /\ pcSend' = "returned"
    /\ UNCHANGED <<sendFrame, sendState, nonceTooLowSeen, chainVars, ctxErr,
                   ctxcErr, task, wg, receiptChan, ret, dropped>>

\* updateGasPrice returns the next variant
PriceOk(a) ==
    /\ task[a].pc = "price"
    /\ task' = [task EXCEPT ![a] = [@ EXCEPT !.pc = "send", !.tx = a]]
    /\ UNCHANGED <<sendFrame, sendState, nonceTooLowSeen, chainVars, ctxErr,
                   ctxcErr, pcSend, wg, receiptChan, ret, dropped>>

\* updateGasPrice fails: the attempt returns, and its err keeps the error
PriceFails(a) ==
    /\ task[a].pc = "price"
    /\ \E err \in PriceErrors :
          /\ ctxcErr' = IF IsCancelErr(err) THEN ctxcErr ELSE Cancel(ctxcErr)
          /\ task' = [task EXCEPT ![a] = [DoneTask EXCEPT !.err = err]]
    /\ wg' = wg - 1
    /\ UNCHANGED <<sendFrame, sendState, nonceTooLowSeen, chainVars, ctxErr,
                   pcSend, receiptChan, ret, dropped>>

\* sendTx returns nil: the backend has accepted the variant.  The
\* ProcessSendError call on the nil error is part of the step.
SendTxAccepted(a) ==
    /\ task[a].pc = "send"
    /\ pending' = pending \cup {task[a].tx}
    /\ sendState' = ProcessSendError(sendState, NilErr)
    /\ task' = [task EXCEPT ![a] = StartWaitMined(task[a].tx)]
    /\ UNCHANGED <<sendFrame, nonceTooLowSeen, blockHeight, minedAt, ctxErr,
                   ctxcErr, pcSend, wg, receiptChan, ret, dropped>>

\* sendTx returns one of the errors errs; the ProcessSendError call on it is
\* part of the step, which changes nothing else.
SendTxFails(a, errs) ==
    /\ task[a].pc = "send"
    /\ \E err \in errs :
          /\ sendState' = ProcessSendError(sendState, err)
          /\ nonceTooLowSeen' = IF err \in NonceTooLowClass
                                THEN nonceTooLowSeen + 1
                                ELSE nonceTooLowSeen
          /\ IF IsCancelErr(err)
             THEN Finish(a)
             ELSE /\ task' = [task EXCEPT ![a] = [@ EXCEPT !.pc = "abort"]]
                  /\ UNCHANGED wg
    /\ UNCHANGED <<sendFrame, chainVars, ctxErr, ctxcErr, pcSend, receiptChan,
                   ret, dropped>>

\* the abort decision after a send error that is not a cancellation
Abort(a) ==
    /\ task[a].pc = "abort"
    /\ ctxcErr' = IF AbortDue(sendState) THEN Cancel(ctxcErr) ELSE ctxcErr
    /\ Finish(a)
    /\ UNCHANGED <<sendFrame, sendState, nonceTooLowSeen, chainVars, ctxErr,
                   pcSend, receiptChan, ret, dropped>>

\* The watcher of attempt a is waitMined with the Send call's SendState; the
\* error of a failed query is logged and stays in err until the next query.
WatchReceiptWith(a, answers) ==
    /\ task[a].pc = "receipt"
    /\ \E r \in answers :
          /\ task' = [task EXCEPT ![a] = AfterReceipt(@, r)]
          /\ sendState' = TrackReceipt(sendState, task[a].tx, r)
    /\ UNCHANGED <<sendFrame, nonceTooLowSeen, chainVars, ctxErr, ctxcErr,
                   pcSend, wg, receiptChan, ret, dropped>>

WatchReceipt(a) ==
    WatchReceiptWith(a, {r \in ReceiptAnswers(task[a].tx, minedAt[task[a].tx]) :
                            r.err = NilErr})

WatchReceiptFails(a) ==
    WatchReceiptWith(a, {r \in ReceiptAnswers(task[a].tx, minedAt[task[a].tx]) :
                            r.err # NilErr})

WatchBlockNumberWith(a, answers) ==
    /\ task[a].pc = "blocknum"
    /\ \E b \in answers :
          task' = [task EXCEPT ![a] = AfterBlockNumber(@, b, numConfirmations)]
    /\ UNCHANGED <<sendFrame, sendState, nonceTooLowSeen, chainVars, ctxErr,
                   ctxcErr, pcSend, wg, receiptChan, ret, dropped>>

WatchBlockNumber(a) ==
    WatchBlockNumberWith(a, {b \in BlockNumberAnswers(blockHeight) : b.err = NilErr})

WatchBlockNumberFails(a) ==
    WatchBlockNumberWith(a, {b \in BlockNumberAnswers(blockHeight) : b.err # NilErr})

\* waitMined returns (nil, ctx.Err()); sendTxAsync has no receipt to hand
\* over and returns.
WatchCtxDone(a) ==
    /\ task[a].pc = "select"
    /\ ctxcErr # NilErr
    /\ AfterCtxDone(task[a], ctxcErr).receipt = NilReceipt
    /\ Finish(a)
    /\ UNCHANGED <<sendFrame, sendState, nonceTooLowSeen, chainVars, ctxErr,
                   ctxcErr, pcSend, receiptChan, ret, dropped>>

WatchQueryTick(a) ==
    /\ task[a].pc = "select"
    /\ task' = [task EXCEPT ![a] = AfterQueryTick(@)]
    /\ UNCHANGED <<sendFrame, sendState, nonceTooLowSeen, chainVars, ctxErr,
                   ctxcErr, pcSend, wg, receiptChan, ret, dropped>>

\* waitMined has returned a receipt: the non-blocking send on receiptChan.
\* dropped counts the receipts that took the default branch.
HandOff(a) ==
    /\ task[a].pc = "returned"
    /\ receiptChan' = IF task[a].receipt # NilReceipt
                      THEN Offer(receiptChan, task[a].receipt)
                      ELSE receiptChan
    /\ dropped' = IF task[a].receipt # NilReceipt /\ receiptChan' = receiptChan
                  THEN dropped + 1
                  ELSE dropped
    /\ Finish(a)
    /\ UNCHANGED <<sendFrame, sendState, nonceTooLowSeen, chainVars, ctxErr,
                   ctxcErr, pcSend, ret>>

SendCtxEnds ==
    /\ CtxEnds
    /\ ctxcErr' = IF pcSend # "start" /\ ctxcErr = NilErr THEN ctxErr' ELSE ctxcErr
    /\ UNCHANGED <<sendFrame, sendState, nonceTooLowSeen, chainVars, pcSend,
                   task, wg, receiptChan, ret, dropped>>

(***************************************************************************)
(* SpecSend: one Send call against any backend: pricing, sending and the   *)
(* watcher's queries may fail, blocks are mined with or without an         *)
(* accepted variant, receipts are reorganised away, and the caller's       *)
(* context may end at any time.                                            *)
(***************************************************************************)
InitSend ==
    /\ sendState = NilSendState
    /\ IdleHist
    /\ IdleChain
    /\ ctxErr = NilErr
    /\ numConfirmations \in 1..MaxConfs
    /\ wm = IdleTask
    /\ threshold \in 1..MaxAttempts
    /\ mineAtEpoch = 0
    /\ ctxcErr = NilErr
    /\ pcSend = "start"
    /\ task = [a \in Attempts |-> IdleTask]
    /\ wg = 0
    /\ receiptChan = << >>
    /\ ret = NoResult
    /\ dropped = 0
    /\ IdleRest

SendTx(a) ==
    \/ SendTxAccepted(a)
    \/ SendTxFails(a, SendTxErrors)

SendMineBlock ==
    /\ MineBlock(pending)
    /\ UNCHANGED <<sendState, histVars, wmVars, sendVars>>

SendReorg ==
    /\ Reorg
    /\ UNCHANGED <<sendState, histVars, wmVars, sendVars>>

AttemptStep(a) ==
    \/ PriceOk(a)
    \/ PriceFails(a)
    \/ SendTx(a)
    \/ Abort(a)
    \/ WatchReceipt(a)
    \/ WatchReceiptFails(a)
    \/ WatchBlockNumber(a)
    \/ WatchBlockNumberFails(a)
    \/ WatchCtxDone(a)
    \/ WatchQueryTick(a)
    \/ HandOff(a)

NextSend ==
    \/ SendStart
    \/ SendTick
    \/ SendCtxDone
    \/ SendReceive
    \/ SendWgWait
    \/ \E a \in Attempts : AttemptStep(a)
    \/ SendMineBlock
    \/ SendReorg
    \/ SendCtxEnds

SpecSend == InitSend /\ [][NextSend]_vars

\* Send has left its select loop with its result.
SendHasResult == pcSend \in {"wgwait", "returned"}

\* Send has returned the receipt of variant h and a nil error.
ReturnedReceiptOf(h) ==
    /\ pcSend = "returned"
    /\ ret.receipt # NilReceipt
    /\ ret.receipt.TxHash = h
    /\ ret.err = NilErr

(***************************************************************************)
(* C1  Send reports at most one success.  receiptChan never holds more     *)
(* than one receipt; a receipt leaves it only in the step in which Send    *)
(* takes it as its result, and Send, having its result, takes no other and *)
(* keeps the result; the hand-off of an attempt that holds a receipt can   *)
(* always be taken (it does not block), changes nothing but the channel,   *)
(* and drops the receipt exactly when the slot is full; Send's result is   *)
(* (receipt, nil) or (nil, error), never both and never neither.           *)
(***************************************************************************)
C1_AtMostOneSuccess ==
    /\ [](Len(receiptChan) <= 1)
    /\ [](IF SendHasResult
          THEN (ret.receipt # NilReceipt) <=> (ret.err = NilErr)
          ELSE ret = NoResult)
    /\ [](\A a \in Attempts : task[a].pc = "returned" => ENABLED HandOff(a))
    /\ [][Len(receiptChan') < Len(receiptChan)
            => /\ pcSend = "select"
               /\ pcSend' = "wgwait"
               /\ ret' = [receipt |-> Head(receiptChan), err |-> NilErr]]_vars
    /\ [][SendHasResult
            => /\ SendHasResult'
               /\ ret' = ret
               /\ Len(receiptChan') >= Len(receiptChan)]_vars
    /\ [][\A a \in Attempts :
            (task[a].pc = "returned" /\ task'[a].pc # "returned")
            => /\ task'[a] = DoneTask
               /\ <<ctxcErr, pcSend, ret, sendState>>' = <<ctxcErr, pcSend, ret, sendState>>
               /\ IF Len(receiptChan) = 0
                  THEN receiptChan' = <<task[a].receipt>> /\ dropped' = dropped
                  ELSE receiptChan' = receiptChan /\ dropped' = dropped + 1]_vars

\* Send has returned a receipt although another attempt obtained one too and
\* dropped it at the full slot.
C1_Witness ==
    /\ pcSend = "returned"
    /\ ret.receipt # NilReceipt
    /\ ret.err = NilErr
    /\ dropped >= 1

(***************************************************************************)
(* C4  When Send has returned, the derived context is cancelled and every  *)
(* attempt it launched has returned: none is pricing, sending or polling,  *)
(* and none starts afterwards.                                             *)
(***************************************************************************)
C4_NoAttemptOutlivesSend ==
    /\ [](pcSend = "returned"
            => /\ ctxcErr # NilErr
               /\ wg = 0
               /\ \A a \in Attempts : task[a].pc \in {"idle", "done"})
    /\ [][pcSend = "returned" => (task' = task /\ pcSend' = pcSend)]_vars

\* Send has returned a receipt after launching every attempt.
C4_Witness ==
    /\ pcSend = "returned"
    /\ ret.receipt # NilReceipt
    /\ \A a \in Attempts : task[a].pc = "done"
    /\ ctxcErr = ErrCanceled

(***************************************************************************)
(* SpecSendFair: one Send call as the tests of txmgr_test.go drive it,     *)
(* under fair scheduling.  updateGasPrice is the gasPricer and does not    *)
(* fail; sendTx accepts the variant of epoch mineAtEpoch (0: none), which  *)
(* the mockBackend then mines; for any other variant it returns nil        *)
(* without the variant ever being mined, a transient error or              *)
(* nonce-too-low; the queries of the mockBackend do not fail; blocks are   *)
(* mined on top of a mined variant until it has its confirmations; the     *)
(* caller's context may end.                                               *)
(***************************************************************************)
InitSendFair ==
    /\ sendState = NilSendState
    /\ IdleHist
    /\ IdleChain
    /\ ctxErr = NilErr
    /\ numConfirmations \in 1..MaxConfs
    /\ wm = IdleTask
    /\ threshold \in 1..MaxAttempts
    /\ mineAtEpoch \in 0..MaxAttempts
    /\ ctxcErr = NilErr
    /\ pcSend = "start"
    /\ task = [a \in Attempts |-> IdleTask]
    /\ wg = 0
    /\ receiptChan = << >>
    /\ ret = NoResult
    /\ dropped = 0
    /\ IdleRest

\* errors the tests' sendTx returns for a variant that is not to be mined
MockSendTxErrors == {ErrOther, ErrNonceTooLow}

\* sendTx of the tests: the variant the gasPricer has mined is accepted; any
\* other is accepted or fails
MockSendTx(a) ==
    \/ SendTxAccepted(a)
    \/ /\ task[a].tx # mineAtEpoch
       /\ SendTxFails(a, MockSendTxErrors)

\* h.backend.mine(&txHash, ...), called by sendTx for the variant the
\* gasPricer has mined, at once or from a timer
MockMineVariant ==
    /\ mineAtEpoch \in pending
    /\ minedAt[mineAtEpoch] = 0
    /\ blockHeight' = blockHeight + 1
    /\ minedAt' = [minedAt EXCEPT ![mineAtEpoch] = blockHeight + 1]
    /\ UNCHANGED <<sendState, histVars, pending, wmVars, sendVars>>

\* h.backend.mine(nil, nil): an empty block on top of a variant that waits
\* for its confirmations
MockMineBlock ==
    /\ \E h \in Variants :
          /\ minedAt[h] > 0
          /\ blockHeight < minedAt[h] + numConfirmations - 1
    /\ blockHeight' = blockHeight + 1
    /\ UNCHANGED <<sendState, histVars, minedAt, pending, wmVars, sendVars>>

FairAttemptStep(a) ==
    \/ PriceOk(a)
    \/ MockSendTx(a)
    \/ Abort(a)
    \/ WatchReceipt(a)
    \/ WatchBlockNumber(a)
    \/ WatchCtxDone(a)
    \/ WatchQueryTick(a)
    \/ HandOff(a)

NextSendFair ==
    \/ SendStart
    \/ SendTick
    \/ SendCtxDone
    \/ SendReceive
    \/ SendWgWait
    \/ \E a \in Attempts : FairAttemptStep(a)
    \/ MockMineVariant
    \/ MockMineBlock
    \/ SendCtxEnds

\* Every goroutine that can take a step takes one, the tickers fire, the
\* backend mines; a select whose ctx.Done() case is ready again and again
\* takes it in the end (Go chooses among the ready cases at random).
FairnessSend ==
    /\ WF_vars(SendStart)
    /\ WF_vars(SendTick)
    /\ WF_vars(SendCtxDone)
    /\ WF_vars(SendReceive)
    /\ WF_vars(SendWgWait)
    /\ \A a \in Attempts : WF_vars(FairAttemptStep(a))
    /\ \A a \in Attempts : SF_vars(WatchCtxDone(a))
    /\ WF_vars(MockMineVariant)
    /\ WF_vars(MockMineBlock)

SpecSendFair == InitSendFair /\ [][NextSendFair]_vars /\ FairnessSend

\* No variant has a receipt on the chain (under SpecSendFair, where no
\* receipt is reorganised away: none ever had).
NeverMined == \A h \in Variants : minedAt[h] = 0

\* Every sendTx so far, but the mined variant's, failed with a transient error.
OthersFailTransient ==
    /\ pending \subseteq {mineAtEpoch}
    /\ nonceTooLowSeen = 0

(***************************************************************************)
(* C2  Send race law.  When the caller never cancels, one variant is       *)
(* accepted and mined and gets its confirmations, and the sendTx of every  *)
(* other attempt fails with a transient error, Send eventually returns     *)
(* that variant's receipt and a nil error; and a result Send has while     *)
(* this is so is that receipt.                                             *)
(***************************************************************************)
C2_SendRaceLaw ==
    /\ <>(\/ mineAtEpoch = 0
          \/ ctxErr # NilErr
          \/ ~OthersFailTransient
          \/ ReturnedReceiptOf(mineAtEpoch))
    /\ []((SendHasResult /\ mineAtEpoch # 0 /\ ctxErr = NilErr /\ OthersFailTransient)
            => /\ ret.err = NilErr
               /\ ret.receipt = [TxHash |-> mineAtEpoch,
                                 BlockNumber |-> minedAt[mineAtEpoch]])

\* The second variant is the mined one; the first attempt failed with a
\* transient error, and Send has returned the second's receipt after two
\* confirmations.
C2_Witness ==
    /\ mineAtEpoch = 2
    /\ numConfirmations = 2
    /\ ctxErr = NilErr
    /\ OthersFailTransient
    /\ task[1] = DoneTask
    /\ ReturnedReceiptOf(mineAtEpoch)

(***************************************************************************)
(* C5  Once a variant is recorded as mined in SendState, a nonce-too-low   *)
(* send error of a sibling attempt does not make Send abort: the abort     *)
(* decision taken while a variant is recorded as mined leaves the derived  *)
(* context as it is; and from a state in which the mined variant is        *)
(* recorded and the derived context is not cancelled, Send returns that    *)
(* variant's receipt, unless the caller's context ends.                    *)
(***************************************************************************)
C5_MinedOverridesNonceTooLow ==
    /\ [][\A a \in Attempts :
            (task[a].pc = "abort" /\ task'[a].pc # "abort"
                /\ IsWaitingForConfirmation(sendState))
            => ctxcErr' = ctxcErr]_vars
    /\ [](sendState.minedTxs \subseteq {mineAtEpoch})
    /\ []((mineAtEpoch \in sendState.minedTxs /\ ctxcErr = NilErr)
            => <>(ReturnedReceiptOf(mineAtEpoch) \/ ctxErr # NilErr))

\* The first variant is recorded as mined, the sibling's sendTx has failed
\* with nonce-too-low, which reaches the threshold, its abort decision is
\* taken, and the derived context is not cancelled.
C5_Witness ==
    /\ mineAtEpoch = 1
    /\ mineAtEpoch \in sendState.minedTxs
    /\ sendState.nonceTooLowCount >= threshold
    /\ \A a \in Attempts \ {mineAtEpoch} : task[a] = DoneTask
    /\ pcSend = "select"
    /\ ctxcErr = NilErr

CanLock_NoExclusion(m) ==
    TRUE

\* s.mu.Lock() can return
CanLock(m) ==
    m.writer = 0 /\ m.readers = {}

\* s.mu.RLock() can return
CanRLock(m) ==
    m.writer = 0

\* errors the goroutines report
ConcErrors == {NilErr, ErrNonceTooLow, ErrOther}

\* the call of caller c as a whole, applied to SendState s
ApplyCall(s, c) ==
    CASE c.op = "ProcessSendError" -> ProcessSendError(s, ErrNonceTooLow)
      [] c.op = "TxMined" -> TxMined(s, c.hash)
      [] c.op = "TxNotMined" -> TxNotMined(s, c.hash)
      [] OTHER -> s

InitSendStateConc ==
    /\ \E t \in 1..MaxThreshold, m \in SUBSET Hashes, n \in 0..1 :
          sendState = [NewSendState(t) EXCEPT !.minedTxs = m, !.nonceTooLowCount = n]
    /\ linear = sendState
    /\ mu = NoLock
    /\ caller = [p \in Callers |-> IdleCaller]
    /\ concCalls = 0
    /\ IdleRetry
    /\ IdleSync
    /\ IdleHist
    /\ IdleChain
    /\ IdleWaitMined
    /\ threshold = 1
    /\ ctxcErr = NilErr
    /\ pcSend = "idle"
    /\ task = [a \in Attempts |-> IdleTask]
    /\ wg = 0
    /\ receiptChan = << >>
    /\ ret = NoResult
    /\ mineAtEpoch = 0
    /\ dropped = 0

\* ProcessSendError(err) is called: a nil error and an error of another
\* class return before the lock is asked for
ConcProcessSendError(p) ==
    /\ caller[p].pc = "idle"
    /\ concCalls < MaxConcCalls
    /\ concCalls' = concCalls + 1
    /\ \E err \in ConcErrors :
          caller' = [caller EXCEPT ![p] =
                        IF err = NilErr \/ ~Contains(err.msg, ErrNonceTooLow.msg)
                        THEN IdleCaller
                        ELSE [IdleCaller EXCEPT !.pc = "lock", !.op = "ProcessSendError"]]
    /\ UNCHANGED <<sendState, concFrame, mu, linear>>

\* TxMined(h) or TxNotMined(h) is called
ConcMark(p) ==
    /\ caller[p].pc = "idle"
    /\ concCalls < MaxConcCalls
    /\ concCalls' = concCalls + 1
    /\ \E op \in {"TxMined", "TxNotMined"}, h \in Hashes :
          caller' = [caller EXCEPT ![p] =
                        [IdleCaller EXCEPT !.pc = "lock", !.op = op, !.hash = h]]
    /\ UNCHANGED <<sendState, concFrame, mu, linear>>

\* ShouldAbortImmediately() is called
ConcShouldAbort(p) ==
    /\ caller[p].pc = "idle"
    /\ concCalls < MaxConcCalls
    /\ concCalls' = concCalls + 1
    /\ caller' = [caller EXCEPT ![p] =
                     [IdleCaller EXCEPT !.pc = "rlock", !.op = "ShouldAbortImmediately"]]
    /\ UNCHANGED <<sendState, concFrame, mu, linear>>

\* s.mu.Lock() returns
ConcLock(p) ==
    /\ caller[p].pc = "lock"
    /\ CanLock(mu)
    /\ mu' = [mu EXCEPT !.writer = p]
    /\ linear' = ApplyCall(linear, caller[p])
    /\ caller' = [caller EXCEPT ![p].pc =
                     CASE caller[p].op = "ProcessSendError" -> "incr_read"
                       [] caller[p].op = "TxMined" -> "insert"
                       [] OTHER -> "read_was"]
    /\ UNCHANGED <<sendState, concFrame, concCalls>>

\* s.nonceTooLowCount++ : the read
ConcIncrRead(p) ==
    /\ caller[p].pc = "incr_read"
    /\ caller' = [caller EXCEPT ![p].pc = "incr_write",
                                ![p].read = sendState.nonceTooLowCount]
    /\ UNCHANGED <<sendState, concFrame, mu, linear, concCalls>>

\* s.nonceTooLowCount++ : the write
ConcIncrWrite(p) ==
    /\ caller[p].pc = "incr_write"
    /\ sendState' = [sendState EXCEPT !.nonceTooLowCount = caller[p].read + 1]
    /\ caller' = [caller EXCEPT ![p].pc = "unlock"]
    /\ UNCHANGED <<concFrame, mu, linear, concCalls>>

\* s.minedTxs[txHash] = struct{}{}
ConcInsert(p) ==
    /\ caller[p].pc = "insert"
    /\ sendState' = [sendState EXCEPT !.minedTxs = @ \cup {caller[p].hash}]
    /\ caller' = [caller EXCEPT ![p].pc = "unlock"]
    /\ UNCHANGED <<concFrame, mu, linear, concCalls>>

\* _, wasMined := s.minedTxs[txHash]
ConcReadWasMined(p) ==
    /\ caller[p].pc = "read_was"
    /\ caller' = [caller EXCEPT ![p].pc = "delete",
                                ![p].wasMined = caller[p].hash \in sendState.minedTxs]
    /\ UNCHANGED <<sendState, concFrame, mu, linear, concCalls>>

\* delete(s.minedTxs, txHash)
ConcDelete(p) ==
    /\ caller[p].pc = "delete"
    /\ sendState' = [sendState EXCEPT !.minedTxs = @ \ {caller[p].hash}]
    /\ caller' = [caller EXCEPT ![p].pc = "reset"]
    /\ UNCHANGED <<concFrame, mu, linear, concCalls>>

\* if len(s.minedTxs) == 0 && wasMined { s.nonceTooLowCount = 0 }
ConcReset(p) ==
    /\ caller[p].pc = "reset"
    /\ sendState' = IF Cardinality(sendState.minedTxs) = 0 /\ caller[p].wasMined
                    THEN [sendState EXCEPT !.nonceTooLowCount = 0]
                    ELSE sendState
    /\ caller' = [caller EXCEPT ![p].pc = "unlock"]
    /\ UNCHANGED <<concFrame, mu, linear, concCalls>>

\* the deferred s.mu.Unlock(): the call returns
ConcUnlock(p) ==
    /\ caller[p].pc = "unlock"
    /\ mu' = [mu EXCEPT !.writer = IF @ = p THEN 0 ELSE @]
    /\ caller' = [caller EXCEPT ![p] = IdleCaller]
    /\ UNCHANGED <<sendState, concFrame, linear, concCalls>>

\* s.mu.RLock() returns
ConcRLock(p) ==
    /\ caller[p].pc = "rlock"
    /\ CanRLock(mu)
    /\ mu' = [mu EXCEPT !.readers = @ \cup {p}]
    /\ caller' = [caller EXCEPT ![p].pc = "read_len"]
    /\ UNCHANGED <<sendState, concFrame, linear, concCalls>>

\* if len(s.minedTxs) > 0 { return false }
ConcReadLen(p) ==
    /\ caller[p].pc = "read_len"
    /\ caller' = [caller EXCEPT ![p].pc =
                     IF Cardinality(sendState.minedTxs) > 0 THEN "runlock"
                     ELSE "read_count",
                                ![p].result = FALSE]
    /\ UNCHANGED <<sendState, concFrame, mu, linear, concCalls>>

\* return s.nonceTooLowCount >= s.safeAbortNonceTooLowCount
ConcReadCount(p) ==
    /\ caller[p].pc = "read_count"
    /\ caller' = [caller EXCEPT ![p].pc = "runlock",
                                ![p].result = sendState.nonceTooLowCount
                                                >= sendState.safeAbortNonceTooLowCount]
    /\ UNCHANGED <<sendState, concFrame, mu, linear, concCalls>>

\* the deferred s.mu.RUnlock(): the call returns its result
ConcRUnlock(p) ==
    /\ caller[p].pc = "runlock"
    /\ mu' = [mu EXCEPT !.readers = @ \ {p}]
    /\ caller' = [caller EXCEPT ![p] = IdleCaller]
    /\ UNCHANGED <<sendState, concFrame, linear, concCalls>>

NextSendStateConc ==
    \E p \in Callers :
        \/ ConcProcessSendError(p)
        \/ ConcMark(p)
        \/ ConcShouldAbort(p)
        \/ ConcLock(p)
        \/ ConcIncrRead(p)
        \/ ConcIncrWrite(p)
        \/ ConcInsert(p)
        \/ ConcReadWasMined(p)
        \/ ConcDelete(p)
        \/ ConcReset(p)
        \/ ConcUnlock(p)
        \/ ConcRLock(p)
        \/ ConcReadLen(p)
        \/ ConcReadCount(p)
        \/ ConcRUnlock(p)

SpecSendStateConc == InitSendStateConc /\ [][NextSendStateConc]_vars

\* Caller p is inside a locked method body.
InBody(p) == caller[p].pc \in {"incr_read", "incr_write", "insert", "read_was",
                               "delete", "reset", "unlock"}

(***************************************************************************)
(* C11  SendState calls made concurrently behave as if executed one at a   *)
(* time in the order in which they take the lock: whenever no writer holds *)
(* the lock the SendState is the one obtained by applying the calls whole  *)
(* in that order (so no increment is lost and the check-and-reset of       *)
(* TxNotMined is not interleaved with TxMined or ProcessSendError), at     *)
(* most one caller is inside a writing body, never together with a reader, *)
(* and ShouldAbortImmediately returns its value on that SendState.         *)
(***************************************************************************)
C11_CallsAreAtomic ==
    /\ [](mu.writer = 0 => sendState = linear)
    /\ [](\A p, q \in Callers : (InBody(p) /\ InBody(q)) => p = q)
    /\ [](\A p, q \in Callers :
            InBody(p) => caller[q].pc \notin {"read_len", "read_count", "runlock"})
    /\ [](\A p \in Callers :
            caller[p].pc = "runlock"
                => caller[p].result = ShouldAbortImmediately(linear))
    /\ [][\A p \in Callers :
            (caller[p].pc = "incr_write" /\ caller'[p].pc = "unlock")
                => sendState'.nonceTooLowCount = sendState.nonceTooLowCount + 1]_vars

\* One goroutine is between the delete and the reset of TxNotMined, which
\* will reset the counter, while the other waits for the lock with a
\* nonce-too-low report.
C11_Witness ==
    /\ caller[1].pc = "reset"
    /\ caller[1].wasMined
    /\ sendState.minedTxs = {}
    /\ sendState.nonceTooLowCount > 0
    /\ caller[2].pc = "lock"
    /\ caller[2].op = "ProcessSendError"

(***************************************************************************)
(* retry (operation.go, strategies).  Durations are whole seconds; the     *)
(* float64 arithmetic of ExponentialStrategy.Duration is exact on the      *)
(* values the model reaches (below 2^53 ns), so it is integer arithmetic   *)
(* here.                                                                   *)
(***************************************************************************)
\* retry.Fixed(dur)
Fixed(dur) == [kind |-> "fixed", Dur |-> dur, Min |-> 0, Max |-> 0, MaxJitter |-> 0]

\* &ExponentialStrategy{Min, Max, MaxJitter}
ExponentialStrategy(min, max, maxJitter) ==
    [kind |-> "exponential", Dur |-> 0, Min |-> min, Max |-> max,
     MaxJitter |-> maxJitter]

\* what rand.Int63n(e.MaxJitter.Nanoseconds()) can return, and 0 when it is
\* not called
Jitters(e) ==
    IF e.MaxJitter > 0 THEN 0..(e.MaxJitter - 1) ELSE {0}

\* Mutant: the cap applies to the exponential term alone.
ExponentialDuration_CapsExponentOnly(e, attempt, jitter) ==
    IF attempt < 0
    THEN e.Min + jitter
    ELSE LET pow == 2 ^ attempt
         IN  e.Min + (IF pow > e.Max THEN e.Max ELSE pow) + jitter

\* ExponentialStrategy.Duration(attempt) when the jitter sampled is jitter
ExponentialDuration(e, attempt, jitter) ==
    IF attempt < 0
    THEN e.Min + jitter
    ELSE LET durFloat == e.Min + 2 ^ attempt
             dur == IF durFloat > e.Max THEN e.Max ELSE durFloat
         IN  dur + jitter

\* FixedStrategy.Duration(attempt)
FixedDuration(f, attempt) == f.Dur

\* what strategy.Duration(attempt) can return
Durations(st, attempt) ==
    IF st.kind = "fixed"
    THEN {FixedDuration(st, attempt)}
    ELSE {ExponentialDuration(st, attempt, j) : j \in Jitters(st)}

\* the error of the n-th invocation of op
OpErr(n) == [id |-> "opErr", msg |-> <<"invocation", n>>]

\* fmt.Errorf("need at least 1 attempt to run op, but have %d max attempts", ...)
ErrNeedAttempts(n) == [id |-> "needAttempts", msg |-> <<"max", "attempts", n>>]

\* &ErrFailedPermanently{attempts, LastErr}
ErrFailedPermanently(attempts, lastErr) ==
    [id |-> "ErrFailedPermanently", attempts |-> attempts, LastErr |-> lastErr]

\* Mutant: one attempt more than allowed is made.
MoreAttempts_OneMore(i, maxAttempts) ==
    i <= maxAttempts

\* i < maxAttempts
MoreAttempts(i, maxAttempts) ==
    i < maxAttempts

\* Mutant: the context is not looked at.
CtxDone_Never(cerr) ==
    FALSE

\* ctx.Err() != nil
CtxDone(cerr) ==
    cerr # NilErr

\* Mutant: a nil error does not end the loop.
OpSucceeded_Never(err) ==
    FALSE

\* err == nil
OpSucceeded(err) ==
    err = NilErr

\* Mutant: a sleep follows every failed attempt.
SleepDue_Always(i, maxAttempts) ==
    TRUE

\* i != maxAttempts-1
SleepDue(i, maxAttempts) ==
    i # maxAttempts - 1

\* the strategies Do is called with
Strategies ==
    {Fixed(d) : d \in 0..MaxDur}
    \cup {ExponentialStrategy(mn, mx, j) : mn \in 0..1, mx \in 1..MaxDur, j \in 0..1}

(***************************************************************************)
(* SpecRetry: one call Do(ctx, maxAttempts, strategy, op).  The call is at *)
(* "entry", "check" (the loop head and the ctx.Err() test), "op" (about to *)
(* invoke op), "sleep" (in time.Sleep, with remaining seconds to go) or    *)
(* "returned".  The n-th invocation of op returns (n, nil) or (0,          *)
(* OpErr(n)); the context may end at any moment; a second passes while Do  *)
(* sleeps.                                                                 *)
(***************************************************************************)
InitDo ==
    /\ \E k \in (0 - 1)..MaxDoAttempts :
          do = [IdleDo EXCEPT !.pc = "entry", !.maxAttempts = k]
    /\ doCtx = NilErr
    /\ strategy \in Strategies
    /\ opLog = << >>
    /\ sleeps = << >>

InitRetry ==
    /\ InitDo
    /\ sendState = NilSendState
    /\ IdleHist
    /\ IdleChain
    /\ IdleWaitMined
    /\ threshold = 1
    /\ ctxcErr = NilErr
    /\ pcSend = "idle"
    /\ task = [a \in Attempts |-> IdleTask]
    /\ wg = 0
    /\ receiptChan = << >>
    /\ ret = NoResult
    /\ mineAtEpoch = 0
    /\ dropped = 0
    /\ IdleLock
    /\ IdleSync

\* if maxAttempts < 1 { return empty, fmt.Errorf(...) }
DoEntry ==
    /\ do.pc = "entry"
    /\ do' = IF do.maxAttempts < 1
             THEN [do EXCEPT !.pc = "returned", !.ret = 0,
                             !.err = ErrNeedAttempts(do.maxAttempts)]
             ELSE [do EXCEPT !.pc = "check", !.i = 0]
    /\ UNCHANGED <<doCtx, strategy, opLog, sleeps, retryFrame>>

\* the loop head: i < maxAttempts, then if ctx.Err() != nil { return }
DoCheck ==
    /\ do.pc = "check"
    /\ do' = IF ~MoreAttempts(do.i, do.maxAttempts)
             THEN [do EXCEPT !.pc = "returned", !.ret = 0,
                             !.err = ErrFailedPermanently(do.maxAttempts, do.err)]
             ELSE IF CtxDone(doCtx)
                  THEN [do EXCEPT !.pc = "returned", !.ret = 0, !.err = doCtx]
                  ELSE [do EXCEPT !.pc = "op"]
    /\ UNCHANGED <<doCtx, strategy, opLog, sleeps, retryFrame>>

\* ret, err = op(), with the result res and the error err, and what follows
\* it in the loop body
DoOpReturns(res, err) ==
    /\ do.pc = "op"
    /\ opLog' = Append(opLog, IF err = NilErr THEN "ok" ELSE "fail")
    /\ IF OpSucceeded(err)
       THEN /\ do' = [do EXCEPT !.pc = "returned", !.ret = res, !.err = NilErr]
            /\ UNCHANGED sleeps
       ELSE IF SleepDue(do.i, do.maxAttempts)
            THEN \E dur \in Durations(strategy, do.i) :
                    /\ do' = [do EXCEPT !.pc = "sleep", !.ret = res, !.err = err,
                                        !.remaining = dur]
                    /\ sleeps' = Append(sleeps, [i |-> do.i, dur |-> dur])
            ELSE /\ do' = [do EXCEPT !.pc = "check", !.ret = res, !.err = err,
                                     !.i = do.i + 1]
                 /\ UNCHANGED sleeps
    /\ UNCHANGED <<doCtx, strategy, retryFrame>>

DoOpSucceeds ==
    DoOpReturns(Len(opLog) + 1, NilErr)

DoOpFails ==
    DoOpReturns(0, OpErr(Len(opLog) + 1))

\* a second of time.Sleep passes
DoSleepTick ==
    /\ do.pc = "sleep"
    /\ do.remaining > 0
    /\ do' = [do EXCEPT !.remaining = @ - 1]
    /\ UNCHANGED <<doCtx, strategy, opLog, sleeps, retryFrame>>

\* time.Sleep returns; i++
DoWake ==
    /\ do.pc = "sleep"
    /\ do.remaining = 0
    /\ do' = [do EXCEPT !.pc = "check", !.i = do.i + 1]
    /\ UNCHANGED <<doCtx, strategy, opLog, sleeps, retryFrame>>

\* the context of the call is cancelled, or its deadline passes
DoCtxEnds ==
    /\ doCtx = NilErr
    /\ do.pc # "returned"
    /\ doCtx' \in {ErrCanceled, ErrDeadlineExceeded}
    /\ UNCHANGED <<do, strategy, opLog, sleeps, retryFrame>>

NextRetry ==
    \/ DoEntry
    \/ DoCheck
    \/ DoOpSucceeds
    \/ DoOpFails
    \/ DoSleepTick
    \/ DoWake
    \/ DoCtxEnds

SpecRetry == InitRetry /\ [][NextRetry]_vars

\* Every invocation of op so far has failed.
AllFailed == \A n \in 1..Len(opLog) : opLog[n] = "fail"

(***************************************************************************)
(* C12  Retry bounds.  Do with maxAttempts = k >= 1, a context that is not *)
(* cancelled and an operation that always fails returns only after exactly *)
(* k invocations, never makes more than k, and returns the                 *)
(* failed-permanently error that carries k and wraps the error of the k-th *)
(* invocation.                                                             *)
(***************************************************************************)
C12_RetryBounds ==
    /\ []((do.pc = "returned" /\ do.maxAttempts >= 1 /\ doCtx = NilErr /\ AllFailed)
            => /\ Len(opLog) = do.maxAttempts
               /\ do.ret = 0
               /\ do.err = ErrFailedPermanently(do.maxAttempts, OpErr(do.maxAttempts)))
    /\ [](do.maxAttempts >= 1 => Len(opLog) <= do.maxAttempts)

\* Three attempts allowed, three failures: failed permanently.
C12_Witness ==
    /\ do.pc = "returned"
    /\ do.maxAttempts = 3
    /\ doCtx = NilErr
    /\ AllFailed
    /\ Len(opLog) = 3
    /\ do.err = ErrFailedPermanently(3, OpErr(3))

\* Some invocation of op has succeeded.
SomeSucceeded == \E n \in 1..Len(opLog) : opLog[n] = "ok"

(***************************************************************************)
(* C13  When op first succeeds on its j-th invocation, Do has returned     *)
(* that invocation's result with a nil error, op was invoked exactly j     *)
(* times, the only sleeps are the j-1 that followed the failures, and      *)
(* nothing is invoked or slept afterwards.                                 *)
(***************************************************************************)
C13_StopsAtFirstSuccess ==
    /\ [](SomeSucceeded
            => /\ opLog[Len(opLog)] = "ok"
               /\ \A n \in 1..(Len(opLog) - 1) : opLog[n] = "fail"
               /\ do.pc = "returned"
               /\ do.ret = Len(opLog)
               /\ do.err = NilErr
               /\ Len(sleeps) = Len(opLog) - 1)
    /\ [][SomeSucceeded => (opLog' = opLog /\ sleeps' = sleeps /\ do' = do)]_vars

\* Two failures, then the third invocation succeeds.
C13_Witness ==
    /\ opLog = <<"fail", "fail", "ok">>
    /\ do.pc = "returned"
    /\ do.ret = 3
    /\ do.err = NilErr
    /\ Len(sleeps) = 2

\* The failed invocations that were not the last one allowed.
FailedNotLast ==
    {n \in 1..Len(opLog) : opLog[n] = "fail" /\ n - 1 # do.maxAttempts - 1}

(***************************************************************************)
(* C14  No wasted sleep.  Do sleeps exactly once after each failed attempt *)
(* that is not the last one allowed, and never otherwise: the n-th sleep   *)
(* follows the failed attempt of zero-based index n-1 and lasts            *)
(* strategy.Duration(n-1), to its end; k failures with maxAttempts = k     *)
(* give k-1 sleeps.                                                        *)
(***************************************************************************)
C14_NoWastedSleep ==
    /\ [](Len(sleeps) = Cardinality(FailedNotLast))
    /\ [](\A n \in 1..Len(sleeps) :
             /\ sleeps[n].i = n - 1
             /\ opLog[n] = "fail"
             /\ sleeps[n].i # do.maxAttempts - 1
             /\ sleeps[n].dur \in Durations(strategy, n - 1))
    /\ [](do.pc = "sleep" => Len(sleeps) = Len(opLog))
    /\ []((do.pc = "returned" /\ do.maxAttempts >= 1 /\ AllFailed
              /\ Len(opLog) = do.maxAttempts)
            => Len(sleeps) = do.maxAttempts - 1)
    /\ [][(do.pc # "sleep" /\ do'.pc = "sleep")
            => do'.remaining = sleeps'[Len(sleeps')].dur]_vars
    /\ [][(do.pc = "sleep" /\ do'.pc # "sleep")
            => (do.remaining = 0 /\ do'.pc = "check")]_vars

\* Three failures of three allowed: two sleeps, of Duration(0) and
\* Duration(1) of an exponential strategy that differ, and none after the
\* last failure.
C14_Witness ==
    /\ do.pc = "returned"
    /\ do.maxAttempts = 3
    /\ opLog = <<"fail", "fail", "fail">>
    /\ strategy.kind = "exponential"
    /\ Len(sleeps) = 2
    /\ sleeps[1].dur < sleeps[2].dur

(***************************************************************************)
(* C15  Do looks at the context before every attempt, the first included:  *)
(* op is invoked only after a check that found the context live, and a     *)
(* check that finds it ended, with an attempt still allowed, returns the   *)
(* context's error at once without invoking op.                            *)
(***************************************************************************)
C15_CancellationCheckedFirst ==
    /\ [][(do.pc = "check" /\ do.i < do.maxAttempts /\ doCtx # NilErr /\ do' # do)
            => /\ do'.pc = "returned"
               /\ do'.err = doCtx
               /\ do'.ret = 0
               /\ opLog' = opLog
               /\ sleeps' = sleeps]_vars
    /\ [][(do.pc # "op" /\ do'.pc = "op") => (do.pc = "check" /\ doCtx = NilErr)]_vars
    /\ [][opLog' # opLog => do.pc = "op"]_vars
    /\ []((do.pc = "returned" /\ do.err \in {ErrCanceled, ErrDeadlineExceeded})
            => do.err = doCtx)

\* The context ended before the first attempt: Do returned its error and op
\* never ran.
C15_Witness ==
    /\ do.pc = "returned"
    /\ do.maxAttempts >= 1
    /\ do.err = ErrCanceled
    /\ opLog = << >>

(***************************************************************************)
(* C16  Cancellation takes priority over retry scheduling: when the        *)
(* context has ended while Do is in a backoff sleep, Do does not wait out  *)
(* the rest of the sleep; its next step returns the context's error.       *)
(***************************************************************************)
C16_CancellationCutsSleep ==
    [][(do.pc = "sleep" /\ do.remaining > 0 /\ doCtx # NilErr /\ do' # do)
        => (do'.pc = "returned" /\ do'.err = doCtx)]_vars

\* The context has ended and Do is still asleep with time to go.
C16_Witness ==
    /\ do.pc = "sleep"
    /\ doCtx = ErrCanceled
    /\ do.remaining > 0
    /\ do.remaining < sleeps[Len(sleeps)].dur

(***************************************************************************)
(* SpecStrategy: one call strategy.Duration(attempt), for every strategy   *)
(* and attempt within the bounds.  The jitter is the value rand.Int63n     *)
(* returns in the call.                                                    *)
(***************************************************************************)
\* the strategies Duration is called on
DurationStrategies ==
    {Fixed(d) : d \in 0..MaxDur}
    \cup {ExponentialStrategy(mn, mx, j) :
            mn \in 0..MaxMinSecs, mx \in 0..MaxMaxSecs, j \in 0..MaxJitterSecs}

InitStrategy ==
    /\ strategy \in DurationStrategies
    /\ \E n \in (0 - 2)..MaxAttemptIndex :
          duration = [IdleDuration EXCEPT !.pc = "called", !.attempt = n]
    /\ do = IdleDo
    /\ doCtx = NilErr
    /\ opLog = << >>
    /\ sleeps = << >>
    /\ sendState = NilSendState
    /\ IdleHist
    /\ IdleChain
    /\ IdleWaitMined
    /\ threshold = 1
    /\ ctxcErr = NilErr
    /\ pcSend = "idle"
    /\ task = [a \in Attempts |-> IdleTask]
    /\ wg = 0
    /\ receiptChan = << >>
    /\ ret = NoResult
    /\ mineAtEpoch = 0
    /\ dropped = 0
    /\ IdleLock
    /\ IdleTraversal
    /\ IdleSynchronizer

\* (*ExponentialStrategy).Duration
ExponentialDurationReturns ==
    /\ duration.pc = "called"
    /\ strategy.kind = "exponential"
    /\ \E jitter \in Jitters(strategy) :
          duration' = [duration EXCEPT
                          !.pc = "returned",
                          !.jitter = jitter,
                          !.dur = ExponentialDuration(strategy, duration.attempt, jitter)]
    /\ UNCHANGED <<strategy, durationFrame>>

\* (*FixedStrategy).Duration
FixedDurationReturns ==
    /\ duration.pc = "called"
    /\ strategy.kind = "fixed"
    /\ duration' = [duration EXCEPT
                       !.pc = "returned",
                       !.dur = FixedDuration(strategy, duration.attempt)]
    /\ UNCHANGED <<strategy, durationFrame>>

NextStrategy ==
    \/ ExponentialDurationReturns
    \/ FixedDurationReturns

SpecStrategy == InitStrategy /\ [][NextStrategy]_vars

\* the smaller of two durations
MinOf(a, b) == IF a < b THEN a ELSE b

\* a call of the exponential strategy's Duration has returned
ExponentialReturned ==
    duration.pc = "returned" /\ strategy.kind = "exponential"

NewSimpleTxManagerPanics(cfgNumConfirmations) ==
    cfgNumConfirmations = 0

InitUsageDo ==
    /\ InitDo
    /\ numConfirmations = 1
    /\ threshold = 1
    /\ pcSend = "idle"

InitUsageManager ==
    /\ IdleRetry
    /\ numConfirmations \in 0..1
    /\ threshold \in 0..1
    /\ pcSend = "new"

InitUsage ==
    /\ InitUsageDo \/ InitUsageManager
    /\ sendState = NilSendState
    /\ IdleHist
    /\ IdleChain
    /\ ctxErr = NilErr
    /\ wm = IdleTask
    /\ mineAtEpoch = 0
    /\ ctxcErr = NilErr
    /\ task = [a \in Attempts |-> IdleTask]
    /\ wg = 0
    /\ receiptChan = << >>
    /\ ret = NoResult
    /\ dropped = 0
    /\ IdleLock
    /\ IdleSync

\* NewSimpleTxManager(cfg, backend), and then the call of Send on the manager
NewSimpleTxManager ==
    /\ pcSend = "new"
    /\ pcSend' = IF NewSimpleTxManagerPanics(numConfirmations)
                 THEN "panicked"
                 ELSE "start"
    /\ UNCHANGED <<sendFrame, sendState, nonceTooLowSeen, chainVars, ctxErr,
                   ctxcErr, task, wg, receiptChan, ret, dropped>>

\* Send up to the panic of NewSendState: ctxc exists, and the deferred
\* cancel() and wg.Wait() run while the panic unwinds
SendNewSendStatePanics ==
    /\ pcSend = "start"
    /\ NewSendStatePanics(threshold)
    /\ ctxcErr' = Cancel(ctxErr)
    /\ pcSend' = "panicked"
    /\ UNCHANGED <<sendFrame, sendState, nonceTooLowSeen, chainVars, ctxErr,
                   task, wg, receiptChan, ret, dropped>>

NextUsage ==
    \/ NextRetry
    \/ NewSimpleTxManager
    \/ SendNewSendStatePanics
    \/ NextSend

SpecUsage == InitUsage /\ [][NextUsage]_vars

\* No attempt of Send has started, so nothing was priced or sent.
NoPricingOrSending ==
    /\ \A a \in Attempts : task[a] = IdleTask
    /\ wg = 0
    /\ pending = {}
    /\ receiptChan = << >>
    /\ ret = NoResult

(***************************************************************************)
(* C18  Usage errors fail fast and do no work.  Do with maxAttempts < 1    *)
(* returns its error without invoking op; NewSimpleTxManager with          *)
(* NumConfirmations = 0 panics, so no Send follows; NewSendState with a    *)
(* zero threshold panics, so no SendState with a zero threshold exists and *)
(* a Send with a zero threshold prices and sends nothing.                  *)
(***************************************************************************)
C18_UsageErrorsFailFast ==
    /\ [](do.maxAttempts < 1
            => /\ opLog = << >>
               /\ sleeps = << >>
               /\ do.pc \in {"idle", "entry", "returned"}
               /\ do.pc = "returned" => do.err = ErrNeedAttempts(do.maxAttempts))
    /\ []((pcSend # "idle" /\ numConfirmations = 0)
            => (pcSend \in {"new", "panicked"} /\ NoPricingOrSending
                  /\ sendState = NilSendState))
    /\ [](sendState # NilSendState => sendState.safeAbortNonceTooLowCount > 0)
    /\ []((pcSend # "idle" /\ threshold = 0)
            => (pcSend \in {"new", "start", "panicked"} /\ NoPricingOrSending
                  /\ sendState = NilSendState))

\* A manager with a valid NumConfirmations and a zero threshold: its Send
\* has panicked in NewSendState.
C18_Witness ==
    /\ pcSend = "panicked"
    /\ numConfirmations = 1
    /\ threshold = 0
    /\ ctxcErr = ErrCanceled
    /\ NoPricingOrSending

(***************************************************************************)
(* HeaderTraversal (header_traversal.go) over the chain client             *)
(* (client.go).  A header is [number, salt, parentHash]; its hash is       *)
(* computed from its whole content, so two headers have the same hash      *)
(* only when they are the same header.  salt tells apart the blocks the    *)
(* node may hold at one height.                                            *)
(***************************************************************************)
Salts == 1..NumSalts

\* (*types.Header).Hash()
Hash(h) == <<h.number, h.salt, h.parentHash>>

\* the block of number 0
Genesis == [number |-> 0, salt |-> 1, parentHash |-> ZeroHash]

\* the header at the tip of the node's chain
Tip == chain[Len(chain)]

\* the node's answer to eth_getBlockByNumber(height), decoded into a slot of
\* the headers slice: a null answer leaves the slot at its zero value
HeaderOrZero(height) ==
    IF height >= 0 /\ height < Len(chain) THEN chain[height + 1] ELSE ZeroHeader

\* (*big.Int).Uint64() as the build computes it: the low 64 bits of the
\* absolute value, which is the absolute value for the block numbers here
Uint64Of(x) == IF x < 0 THEN 0 - x ELSE x

\* int64(size-1) for a uint64 size
SizeMinusOne(size) == IF size = 0 THEN 0 - 1 ELSE size - 1

\* Mutant: the batch size is not applied.
Clamp_NoLimit(start, end, size) ==
    end

\* bigint.Clamp(start, end, size)
Clamp(start, end, size) ==
    LET count == Uint64Of(end - start) + 1
    IN  IF count <= size THEN end ELSE start + SizeMinusOne(size)

\* count in BlockHeadersByRange(startHeight, endHeight, chainId)
RangeCount(startHeight, endHeight) ==
    Uint64Of(endHeight - startHeight) + 1

\* errors of NextHeaders
ErrHeaderTraversalAheadOfProvider ==
    [id |-> "ErrHeaderTraversalAheadOfProvider", msg |-> <<"ahead", "of", "provider">>]
ErrHeaderTraversalAndProviderMismatchedState ==
    [id |-> "ErrHeaderTraversalAndProviderMismatchedState", msg |-> <<"diverged">>]
ErrLatestUnavailable ==
    [id |-> "latestUnavailable", msg |-> <<"unable", "to", "query", "latest", "block">>]
ErrQueryingRange ==
    [id |-> "queryingRange", msg |-> <<"error", "querying", "blocks", "by", "range">>]

\* NextHeaders is inside its call of BlockHeadersByRange(nh.start, nh.end)
InRangeCall == nh.pc \in {"single", "range"}

\* return nil, err (nil error: the empty batch)
NHReturn(headers, err) ==
    [nh EXCEPT !.pc = "returned", !.headers = << >>, !.ret = headers, !.err = err]

\* Mutant: the first header's parent is not compared with the cursor.
Mismatched_Never(last, headers) ==
    FALSE

\* f.lastTraversedHeader != nil && headers[0].ParentHash != f.lastTraversedHeader.Hash()
Mismatched(last, headers) ==
    last # NilHeader /\ headers[1].parentHash # Hash(last)

\* f.lastTraversedHeader != nil with cmp == 0
CursorAtEnd(last, endHeight) ==
    last # NilHeader /\ last.number = endHeight

\* Mutant: a cursor above the safe end is not noticed.
CursorAhead_Never(last, endHeight) ==
    FALSE

\* f.lastTraversedHeader != nil with cmp > 0
CursorAhead(last, endHeight) ==
    last # NilHeader /\ last.number > endHeight

\* NextHeaders from len(headers) on, for the headers the client returned
NHFinish(headers) ==
    LET answer(r) == [r EXCEPT !.answered = TRUE, !.fetched = headers]
    IN  IF Len(headers) = 0
        THEN /\ nh' = answer(NHReturn(<< >>, NilErr))
             /\ UNCHANGED lastTraversedHeader
        ELSE IF Mismatched(lastTraversedHeader, headers)
             THEN /\ nh' = answer(NHReturn(<< >>,
                                   ErrHeaderTraversalAndProviderMismatchedState))
                  /\ UNCHANGED lastTraversedHeader
             ELSE /\ nh' = answer(NHReturn(headers, NilErr))
                  /\ lastTraversedHeader' = headers[Len(headers)]

(***************************************************************************)
(* SpecTraversal: one HeaderTraversal, created with no cursor, whose       *)
(* NextHeaders is called again and again, and a node whose chain grows,    *)
(* replaces its tip by another block (a reorg) or loses its tip (a         *)
(* failover to a node behind) at any moment, between the RPCs of a call    *)
(* and between the answers to the elements of one batch.  A call is at     *)
(* "latest" (before BlockHeaderByNumber(nil)), "single" or "range" (in     *)
(* BlockHeadersByRange), "returned", "panicked" or "exited".               *)
(***************************************************************************)
InitTraversal ==
    /\ chain = <<Genesis>>
    /\ latestHeader = NilHeader
    /\ lastTraversedHeader = NilHeader
    /\ blockConfirmationDepth \in 0..MaxDepth
    /\ nh = IdleNextHeaders
    /\ IdleSynchronizer
    /\ duration = IdleDuration
    /\ IdleRetry
    /\ sendState = NilSendState
    /\ IdleHist
    /\ IdleChain
    /\ IdleWaitMined
    /\ threshold = 1
    /\ ctxcErr = NilErr
    /\ pcSend = "idle"
    /\ task = [a \in Attempts |-> IdleTask]
    /\ wg = 0
    /\ receiptChan = << >>
    /\ ret = NoResult
    /\ mineAtEpoch = 0
    /\ dropped = 0
    /\ IdleLock

\* the caller calls NextHeaders(maxSize)
NHCall ==
    /\ nh.pc \in {"idle", "returned"}
    /\ \E maxSize \in 0..MaxBatch :
          nh' = [IdleNextHeaders EXCEPT !.pc = "latest", !.maxSize = maxSize]
    /\ UNCHANGED <<chain, latestHeader, lastTraversedHeader,
                   blockConfirmationDepth, traversalFrame>>

\* BlockHeaderByNumber(nil) returns the tip, and NextHeaders runs up to its
\* call of BlockHeadersByRange and into it, up to the first RPC
NHLatest ==
    /\ nh.pc = "latest"
    /\ latestHeader' = Tip
    /\ LET endHeight == Tip.number - blockConfirmationDepth
           last == lastTraversedHeader
           nextHeight == IF last = NilHeader THEN 0 ELSE last.number + 1
           clamped == Clamp(nextHeight, endHeight, nh.maxSize)
       IN  IF endHeight < 0
           THEN nh' = NHReturn(<< >>, NilErr)
           ELSE IF last # NilHeader /\ last.number = NilNumber
           THEN nh' = [nh EXCEPT !.pc = "panicked"]
           ELSE IF CursorAtEnd(last, endHeight)
           THEN nh' = NHReturn(<< >>, NilErr)
           ELSE IF CursorAhead(last, endHeight)
           THEN nh' = NHReturn(<< >>, ErrHeaderTraversalAheadOfProvider)
           ELSE IF nextHeight = clamped
           THEN nh' = [nh EXCEPT !.pc = "single", !.start = nextHeight,
                                 !.end = clamped, !.count = 1]
           ELSE nh' = [nh EXCEPT !.pc = "range", !.start = nextHeight,
                                 !.end = clamped,
                                 !.count = RangeCount(nextHeight, clamped)]
    /\ UNCHANGED <<chain, lastTraversedHeader, blockConfirmationDepth,
                   traversalFrame>>

\* the node answers null for the latest block: BlockHeaderByNumber returns
\* ethereum.NotFound and NextHeaders wraps it
NHLatestNotFound ==
    /\ nh.pc = "latest"
    /\ nh' = NHReturn(<< >>, ErrLatestUnavailable)
    /\ UNCHANGED <<chain, latestHeader, lastTraversedHeader,
                   blockConfirmationDepth, traversalFrame>>

\* the RPC of BlockHeaderByNumber fails: log.Fatalln ends the process
NHRpcFatal ==
    /\ nh.pc \in {"latest", "single"}
    /\ nh' = [nh EXCEPT !.pc = "exited"]
    /\ UNCHANGED <<chain, latestHeader, lastTraversedHeader,
                   blockConfirmationDepth, traversalFrame>>

\* startHeight == endHeight: BlockHeaderByNumber(startHeight), which reports
\* a null answer as ethereum.NotFound; then the rest of NextHeaders
NHSingle ==
    /\ nh.pc = "single"
    /\ IF nh.start < Len(chain)
       THEN NHFinish(<<chain[nh.start + 1]>>)
       ELSE /\ nh' = NHReturn(<< >>, ErrQueryingRange)
            /\ UNCHANGED lastTraversedHeader
    /\ UNCHANGED <<chain, latestHeader, blockConfirmationDepth, traversalFrame>>

\* the node answers the next element of the batch; a null answer leaves the
\* zero header in its slot, and the element's Error is not looked at
NHFetch ==
    /\ nh.pc = "range"
    /\ Len(nh.headers) < nh.count
    /\ nh' = [nh EXCEPT !.headers =
                 Append(@, HeaderOrZero(nh.start + Len(nh.headers)))]
    /\ UNCHANGED <<chain, latestHeader, lastTraversedHeader,
                   blockConfirmationDepth, traversalFrame>>

\* BatchCallContext returns an error
NHRangeFails ==
    /\ nh.pc = "range"
    /\ nh' = NHReturn(<< >>, ErrQueryingRange)
    /\ UNCHANGED <<chain, latestHeader, lastTraversedHeader,
                   blockConfirmationDepth, traversalFrame>>

\* an EthClient whose BlockHeadersByRange returns no headers and no error;
\* then the rest of NextHeaders
NHRangeEmpty ==
    /\ InRangeCall
    /\ NHFinish(<< >>)
    /\ UNCHANGED <<chain, latestHeader, blockConfirmationDepth, traversalFrame>>

\* BlockHeadersByRange returns its headers; then the rest of NextHeaders
NHRangeReturns ==
    /\ nh.pc = "range"
    /\ Len(nh.headers) = nh.count
    /\ NHFinish(nh.headers)
    /\ UNCHANGED <<chain, latestHeader, blockConfirmationDepth, traversalFrame>>

\* the node's chain grows by a block
ChainMine ==
    /\ Len(chain) <= MaxChainHeight
    /\ \E s \in Salts :
          chain' = Append(chain, [number |-> Len(chain), salt |-> s,
                                  parentHash |-> Hash(Tip)])
    /\ UNCHANGED <<latestHeader, lastTraversedHeader, blockConfirmationDepth,
                   nh, traversalFrame>>

\* the node replaces its tip by another block of the same number
ChainReorg ==
    /\ Len(chain) >= 2
    /\ \E s \in Salts \ {Tip.salt} :
          chain' = [chain EXCEPT ![Len(chain)] = [@ EXCEPT !.salt = s]]
    /\ UNCHANGED <<latestHeader, lastTraversedHeader, blockConfirmationDepth,
                   nh, traversalFrame>>

\* the provider goes backward: its tip is gone
ChainRollback ==
    /\ Len(chain) >= 2
    /\ chain' = SubSeq(chain, 1, Len(chain) - 1)
    /\ UNCHANGED <<latestHeader, lastTraversedHeader, blockConfirmationDepth,
                   nh, traversalFrame>>

NextTraversal ==
    \/ NHCall
    \/ NHLatest
    \/ NHLatestNotFound
    \/ NHRpcFatal
    \/ NHSingle
    \/ NHFetch
    \/ NHRangeFails
    \/ NHRangeEmpty
    \/ NHRangeReturns
    \/ ChainMine
    \/ ChainReorg
    \/ ChainRollback

SpecTraversal == InitTraversal /\ [][NextTraversal]_vars

\* NextHeaders has returned a batch of headers.
ReturnedBatch ==
    nh.pc = "returned" /\ nh.err = NilErr /\ nh.ret # << >>

(***************************************************************************)
(* C19  Header continuity.  In every batch NextHeaders returns, each       *)
(* header's parentHash is the hash of the header before it, whatever the   *)
(* chain client returned for the range.                                    *)
(***************************************************************************)
C19_HeaderContinuity ==
    ReturnedBatch
    => \A i \in 1..(Len(nh.ret) - 1) : nh.ret[i + 1].parentHash = Hash(nh.ret[i])

\* A batch of two headers of the numbers asked for, the second of which is
\* not a child of the first: the node replaced block 1 between its answers.
C19_Witness ==
    /\ ReturnedBatch
    /\ Len(nh.ret) = 2
    /\ nh.ret[1].number = 1
    /\ nh.ret[2].number = 2
    /\ nh.ret[2].parentHash # Hash(nh.ret[1])

\* head.number - confirmationDepth for the head observed in the call
SafeEnd == latestHeader.number - blockConfirmationDepth

(***************************************************************************)
(* C20  Confirmation-depth clamp.  No header in a batch NextHeaders        *)
(* returns, and no header its cursor is advanced to, has a number greater  *)
(* than head.number - confirmationDepth, for the head observed in that     *)
(* call.                                                                   *)
(***************************************************************************)
C20_ConfirmationDepthClamp ==
    /\ [](ReturnedBatch => \A i \in 1..Len(nh.ret) : nh.ret[i].number <= SafeEnd)
    /\ [][lastTraversedHeader' # lastTraversedHeader
            => lastTraversedHeader'.number <= latestHeader.number - blockConfirmationDepth]_vars

\* Depth 1, head 2, cursor at block 0 and maxSize 0: the batch holds blocks
\* 1 and 2 and the cursor is at block 2, above 2 - 1.
C20_Witness ==
    /\ ReturnedBatch
    /\ nh.maxSize = 0
    /\ blockConfirmationDepth = 1
    /\ latestHeader.number = 2
    /\ Len(nh.ret) = 2
    /\ nh.ret[2].number = 2
    /\ nh.ret[2].parentHash = Hash(nh.ret[1])
    /\ lastTraversedHeader = nh.ret[2]

\* nextHeight of the call under way
NextHeight ==
    IF lastTraversedHeader = NilHeader THEN 0 ELSE lastTraversedHeader.number + 1

\* The range of the call is [nextHeight, min(safeEnd, nextHeight + maxSize - 1)],
\* it is not empty, and the client fetches one height for each of its at most
\* maxSize numbers.
RangeAsSpecified ==
    /\ nh.start = NextHeight
    /\ nh.end = MinOf(SafeEnd, NextHeight + nh.maxSize - 1)
    /\ nh.start <= nh.end
    /\ nh.count = nh.end - nh.start + 1
    /\ nh.count <= nh.maxSize

ReadsHead ==
    /\ nh.pc = "latest"
    /\ nh'.pc \in {"returned", "single", "range"}
    /\ nh'.err # ErrLatestUnavailable

\* NextHeaders returns the empty batch and no error, having asked for no range
ReturnsEmptyUnasked ==
    /\ nh'.pc = "returned"
    /\ nh'.ret = << >>
    /\ nh'.err = NilErr
    /\ nh'.count = 0
    /\ ~nh'.answered

(***************************************************************************)
(* C23  The outcomes of NextHeaders that carry no headers leave the cursor *)
(* untouched.  With safeEnd the head's number minus the confirmation       *)
(* depth: a negative safeEnd, or a cursor whose number is safeEnd, gives   *)
(* the empty batch with no error; a cursor whose number is above safeEnd   *)
(* gives the traversal-ahead-of-provider error, and no range is fetched;   *)
(* a range fetch that returns no headers gives the empty batch with no     *)
(* error; and lastTraversedHeader is unchanged in each of them.            *)
(***************************************************************************)
C23_EmptyOutcomesKeepCursor ==
    /\ [][ReadsHead =>
            LET safeEnd == latestHeader'.number - blockConfirmationDepth
                last == lastTraversedHeader
            IN  /\ safeEnd < 0 => ReturnsEmptyUnasked
                /\ (safeEnd >= 0 /\ last # NilHeader /\ last.number = safeEnd)
                     => ReturnsEmptyUnasked
                /\ (safeEnd >= 0 /\ last # NilHeader /\ last.number > safeEnd)
                     => /\ nh'.pc = "returned"
                        /\ nh'.ret = << >>
                        /\ nh'.err = ErrHeaderTraversalAheadOfProvider
                        /\ nh'.count = 0
                        /\ ~nh'.answered
                /\ lastTraversedHeader' = last]_vars
    /\ []((nh.pc = "returned" /\ nh.answered /\ nh.fetched = << >>)
            => (nh.ret = << >> /\ nh.err = NilErr))
    /\ [][(nh'.pc = "returned" /\ nh'.ret = << >>)
            => lastTraversedHeader' = lastTraversedHeader]_vars

\* The provider went backward: the cursor is at block 2, the head at block
\* 1, and the call returned the traversal-ahead-of-provider error.
C23_Witness ==
    /\ nh.pc = "returned"
    /\ nh.err = ErrHeaderTraversalAheadOfProvider
    /\ lastTraversedHeader.number = 2
    /\ latestHeader.number = 1
    /\ nh.ret = << >>

(***************************************************************************)
(* C24  When a cursor exists and the first header fetched is not its       *)
(* child, NextHeaders returns the diverged-state error and no headers and  *)
(* leaves the cursor and the confirmation depth, which are all a later     *)
(* call reads of the traversal, as they were: the cursor moves only to a   *)
(* batch whose first header is the child of the cursor before.             *)
(***************************************************************************)
C24_DivergedFailsAndStays ==
    /\ [][(InRangeCall /\ nh'.pc = "returned" /\ nh'.answered
             /\ Len(nh'.fetched) > 0
             /\ lastTraversedHeader # NilHeader
             /\ nh'.fetched[1].parentHash # Hash(lastTraversedHeader))
            => /\ nh'.err = ErrHeaderTraversalAndProviderMismatchedState
               /\ nh'.ret = << >>
               /\ lastTraversedHeader' = lastTraversedHeader
               /\ blockConfirmationDepth' = blockConfirmationDepth]_vars
    /\ [][(lastTraversedHeader' # lastTraversedHeader /\ lastTraversedHeader # NilHeader)
            => nh'.ret[1].parentHash = Hash(lastTraversedHeader)]_vars

\* The cursor is at a block 1 the node has replaced; the call fetched block
\* 2, found it no child of the cursor, and returned the error.
C24_Witness ==
    /\ nh.pc = "returned"
    /\ nh.err = ErrHeaderTraversalAndProviderMismatchedState
    /\ nh.ret = << >>
    /\ lastTraversedHeader.number = 1
    /\ Len(nh.fetched) > 0
    /\ nh.fetched[1].number = 2
    /\ nh.fetched[1].parentHash # Hash(lastTraversedHeader)

(***************************************************************************)
(* C25  The cursor is never rolled back in-process: the number of          *)
(* lastTraversedHeader never decreases, the cursor changes only in a call  *)
(* that returns a non-empty batch, and after such a call it is the last    *)
(* header of the batch.                                                    *)
(***************************************************************************)
C25_CursorNeverRolledBack ==
    /\ [][lastTraversedHeader # NilHeader
            => lastTraversedHeader'.number >= lastTraversedHeader.number]_vars
    /\ [][lastTraversedHeader' # lastTraversedHeader
            => /\ InRangeCall
               /\ nh'.pc = "returned"
               /\ nh'.err = NilErr
               /\ nh'.ret # << >>
               /\ lastTraversedHeader' = nh'.ret[Len(nh'.ret)]]_vars
    /\ [](ReturnedBatch => lastTraversedHeader = nh.ret[Len(nh.ret)])

\* The cursor was moved from block 0 to the zero header, which has no
\* number: the node had no block 2 when the client asked for blocks 1 and 2
\* of a head observed at block 2.
C25_Witness ==
    /\ ReturnedBatch
    /\ nh.maxSize = 2
    /\ latestHeader.number = 2
    /\ Len(nh.ret) = 2
    /\ nh.ret[1].number = 1
    /\ nh.ret[1].parentHash = Hash(Genesis)
    /\ nh.ret[2] = ZeroHeader
    /\ lastTraversedHeader = ZeroHeader

(***************************************************************************)
(* The Synchronizer (synchronizer.go): NewSynchronizer, the loop of Start  *)
(* and processBatch, over HeaderTraversal, the chain client and the        *)
(* database.  db is the sequence of the committed transactions, each the   *)
(* header rows and the event rows it stored.  The node holds one log per   *)
(* block, and a log is told by the hash of its block.                      *)
(***************************************************************************)
\* the attempts of retry.Do in processBatch
PersistAttempts == 10

\* errors of processBatch and of NewSynchronizer
ErrAddressList ==
    [id |-> "addressList", msg |-> <<"QueryPoxyCreatedAddressList", "fail">>]
ErrFilterLogs ==
    [id |-> "filterLogs", msg |-> <<"unable", "to", "query", "logs">>]
ErrToBlockNumber ==
    [id |-> "toBlockNumber", msg |-> <<"mismatch", "in", "FilterLog#ToBlock", "number">>]
ErrToBlockHash ==
    [id |-> "toBlockHash", msg |-> <<"mismatch", "in", "FitlerLog#ToBlock", "block", "hash">>]
ErrPersist ==
    [id |-> "persist", msg |-> <<"unable", "to", "persist", "batch">>]
ErrStartingHeader ==
    [id |-> "startingHeader", msg |-> <<"could", "not", "fetch", "starting", "block", "header">>]
ErrPanic ==
    [id |-> "panic", msg |-> <<"panic">>]

\* common2.BlockHeader of a header
BlockHeaderOf(h) ==
    [hash |-> Hash(h), parentHash |-> h.parentHash, number |-> h.number,
     rlpHeader |-> h]

\* common2.BlockHeader{}
ZeroBlockHeader ==
    [hash |-> ZeroHash, parentHash |-> ZeroHash, number |-> NilNumber,
     rlpHeader |-> NilHeader]

\* headers without those whose Number is nil
RECURSIVE Numbered(_)
Numbered(headers) ==
    IF headers = << >> THEN << >>
    ELSE IF Head(headers).number = NilNumber THEN Numbered(Tail(headers))
    ELSE <<Head(headers)>> \o Numbered(Tail(headers))

\* blockHeaders of processBatch: make([]BlockHeader, len(headers)), then one
\* append for each header whose Number is not nil
BlockHeaderRows(headers) ==
    [i \in 1..Len(headers) |-> ZeroBlockHeader]
        \o [i \in 1..Len(Numbered(headers)) |-> BlockHeaderOf(Numbered(headers)[i])]

\* event.ContractEvent{}
ZeroEvent == [blockHash |-> ZeroHash, timestamp |-> 0]

\* headerMap[blockHash].Time: of a header's content beside its number and
\* its parent, which salt stands for, Time is the part read here
HeaderMapTime(headers, blockHash) ==
    headers[CHOOSE j \in 1..Len(headers) : Hash(headers[j]) = blockHash].salt

\* chainContractEvent of processBatch: the slot of a log whose block is not
\* in headerMap is left as it was made
ContractEvents(logs, headers) ==
    [i \in 1..Len(logs) |->
        IF \E j \in 1..Len(headers) : Hash(headers[j]) = logs[i]
        THEN [blockHash |-> logs[i],
              timestamp |-> HeaderMapTime(headers, logs[i])]
        ELSE ZeroEvent]

\* a nil *common2.BlockHeader
NilBlockHeader == [hash |-> ZeroHash, parentHash |-> ZeroHash, number |-> 0 - 2,
                   rlpHeader |-> NilHeader]

\* LatestBlockHeader(): the row of the greatest number (NilBlockHeader: no row)
LatestBlockHeader(rows) ==
    IF rows = << >> THEN NilBlockHeader
    ELSE LET i == CHOOSE k \in 1..Len(rows) :
                      \A m \in 1..Len(rows) : rows[m].number <= rows[k].number
         IN  rows[i]

\* the node's answer to eth_getBlockByNumber(toBlockNumArg(number)): a nil
\* number asks for "latest"
BlockAt(number) ==
    IF number = NilNumber THEN Tip ELSE HeaderOrZero(number)

\* the node's answer to eth_getLogs for [fromBlock, toBlock]; a nil
\* FromBlock asks from block 0, a nil ToBlock up to the latest block
LogsOf(fromBlock, toBlock) ==
    LET from == IF fromBlock = NilNumber THEN 0 ELSE fromBlock
        to == IF toBlock = NilNumber \/ toBlock >= Len(chain)
              THEN Len(chain) - 1 ELSE toBlock
    IN  [i \in 1..(IF to >= from THEN to - from + 1 ELSE 0) |->
            Hash(chain[from + i])]

\* Mutant: a pending batch is not looked at.
HasPending_Never(headers) ==
    FALSE

\* len(syncer.headers) > 0
HasPending(headers) ==
    Len(headers) > 0

\* Mutant: the to-block header is not compared with the batch.
ToBlockMismatch_Never(toBlockHeader, lastHeader) ==
    NilErr

\* the cross-validation of processBatch (NilErr: it passes)
ToBlockMismatch(toBlockHeader, lastHeader) ==
    IF toBlockHeader.number # lastHeader.number THEN ErrToBlockNumber
    ELSE IF Hash(toBlockHeader) # Hash(lastHeader) THEN ErrToBlockHash
    ELSE NilErr

\* Mutant: a failed batch is dropped.
PBReturnsErr_Clears(err) ==
    [syncer EXCEPT !.pc = "waiting", !.err = err, !.headers = << >>,
                   !.batch = << >>, !.logs = NoLogs, !.attempt = 0]

\* processBatch returns err: the loop keeps syncer.headers and waits for the
\* next tick
PBReturnsErr(err) ==
    [syncer EXCEPT !.pc = "waiting", !.err = err, !.batch = << >>,
                   !.logs = NoLogs, !.attempt = 0]

\* processBatch returns nil: the loop clears syncer.headers
PBReturnsNil ==
    [syncer EXCEPT !.pc = "waiting", !.err = NilErr, !.headers = << >>,
                   !.batch = << >>, !.logs = NoLogs, !.attempt = 0]

\* processBatch(headers) up to its first query
PBEnter(s, headers) ==
    IF Len(headers) = 0
    THEN [s EXCEPT !.pc = "waiting", !.err = NilErr, !.headers = << >>,
                   !.batch = << >>]
    ELSE [s EXCEPT !.pc = "addressList", !.batch = headers, !.logs = NoLogs,
                   !.attempt = 0]

(***************************************************************************)
(* SpecSynchronizer: one Synchronizer over a database that is empty or     *)
(* holds block 0, created and started, and the node of SpecTraversal.      *)
(* The Synchronizer is at "new" (before NewSynchronizer), "waiting" (for   *)
(* the ticker), "nextHeaders" (in NextHeaders), "addressList",             *)
(* "filterLogs", "filterLogsAnswered" (the to-block header answered, the   *)
(* logs not yet), "persist" (in a transaction of retry.Do), "failed"       *)
(* (NewSynchronizer returned an error), "crashed" (the loop panicked) or   *)
(* "exited" (the process has ended).                                       *)
(***************************************************************************)
InitSynchronizer ==
    /\ cfg \in [blockStep : 0..MaxBatch, startingHeight : 0..MaxStart]
    /\ syncer = [IdleSyncer EXCEPT !.pc = "new"]
    /\ db \in {<< >>, <<[headers |-> <<BlockHeaderOf(Genesis)>>, events |-> << >>]>>}
    /\ crit = << >>
    /\ chain = <<Genesis>>
    /\ latestHeader = NilHeader
    /\ lastTraversedHeader = NilHeader
    /\ blockConfirmationDepth = 0
    /\ nh = IdleNextHeaders
    /\ duration = IdleDuration
    /\ IdleRetry
    /\ sendState = NilSendState
    /\ IdleHist
    /\ IdleChain
    /\ IdleWaitMined
    /\ threshold = 1
    /\ ctxcErr = NilErr
    /\ pcSend = "idle"
    /\ task = [a \in Attempts |-> IdleTask]
    /\ wg = 0
    /\ receiptChan = << >>
    /\ ret = NoResult
    /\ mineAtEpoch = 0
    /\ dropped = 0
    /\ IdleLock

\* what no step of the Synchronizer itself changes
synchronizerFrame == <<sendState, txmgrVars, lockVars, retryVars, duration,
                       chain, latestHeader, blockConfirmationDepth, cfg>>

\* the rows of the block_headers table
StoredBlockHeaders ==
    IF db = << >> THEN << >> ELSE db[1].headers

\* NewSynchronizer returns a Synchronizer and Start is called: the cursor
\* is the last stored header, or else, with a block step, the header of the
\* starting height, or else none
NewSynchronizer ==
    /\ syncer.pc = "new"
    /\ LET stored == LatestBlockHeader(StoredBlockHeaders)
       IN  IF stored # NilBlockHeader
           THEN lastTraversedHeader' = stored.rlpHeader
           ELSE IF cfg.blockStep > 0
           THEN /\ cfg.startingHeight < Len(chain)
                /\ lastTraversedHeader' = chain[cfg.startingHeight + 1]
           ELSE lastTraversedHeader' = NilHeader
    /\ syncer' = [syncer EXCEPT !.pc = "waiting"]
    /\ UNCHANGED <<nh, db, crit, synchronizerFrame>>

\* the node answers null for the starting height: NewSynchronizer returns
\* an error
NewSynchronizerNotFound ==
    /\ syncer.pc = "new"
    /\ LatestBlockHeader(StoredBlockHeaders) = NilBlockHeader
    /\ cfg.blockStep > 0
    /\ cfg.startingHeight >= Len(chain)
    /\ syncer' = [syncer EXCEPT !.pc = "failed", !.err = ErrStartingHeader]
    /\ UNCHANGED <<nh, db, crit, lastTraversedHeader, synchronizerFrame>>

\* the RPC for the starting height fails: log.Fatalln ends the process
NewSynchronizerRpcFatal ==
    /\ syncer.pc = "new"
    /\ LatestBlockHeader(StoredBlockHeaders) = NilBlockHeader
    /\ cfg.blockStep > 0
    /\ syncer' = [syncer EXCEPT !.pc = "exited"]
    /\ UNCHANGED <<nh, db, crit, lastTraversedHeader, synchronizerFrame>>

\* the ticker fires: with a pending batch the loop enters processBatch on
\* it, and else it calls NextHeaders
Tick ==
    /\ syncer.pc = "waiting"
    /\ IF HasPending(syncer.headers)
       THEN /\ syncer' = PBEnter([syncer EXCEPT !.retrying = TRUE, !.err = NilErr],
                                  syncer.headers)
            /\ UNCHANGED nh
       ELSE /\ syncer' = [syncer EXCEPT !.pc = "nextHeaders", !.retrying = FALSE,
                                        !.err = NilErr]
            /\ nh' = [IdleNextHeaders EXCEPT !.pc = "latest",
                                             !.maxSize = cfg.blockStep]
    /\ UNCHANGED <<db, crit, lastTraversedHeader, synchronizerFrame>>

\* NextHeaders has returned to the loop: on an error the loop logs it and
\* goes on to the next tick; else it keeps the headers and enters
\* processBatch
NextHeadersReturned ==
    /\ syncer.pc = "nextHeaders"
    /\ nh.pc = "returned"
    /\ IF nh.err # NilErr
       THEN syncer' = [syncer EXCEPT !.pc = "waiting", !.err = nh.err]
       ELSE syncer' = PBEnter([syncer EXCEPT !.headers = nh.ret], nh.ret)
    /\ nh' = IdleNextHeaders
    /\ UNCHANGED <<db, crit, lastTraversedHeader, synchronizerFrame>>

\* QueryPoxyCreatedAddressList returns the addresses
PBAddressList ==
    /\ syncer.pc = "addressList"
    /\ syncer' = [syncer EXCEPT !.pc = "filterLogs"]
    /\ UNCHANGED <<nh, db, crit, lastTraversedHeader, synchronizerFrame>>

\* QueryPoxyCreatedAddressList fails
PBAddressListFails ==
    /\ syncer.pc = "addressList"
    /\ syncer' = PBReturnsErr(ErrAddressList)
    /\ UNCHANGED <<nh, db, crit, lastTraversedHeader, synchronizerFrame>>

\* the batch call of FilterLogs fails, or one of its two elements does (a
\* null answer for the to-block is such a failure)
PBFilterLogsFails ==
    /\ syncer.pc \in {"filterLogs", "filterLogsAnswered"}
    /\ syncer' = PBReturnsErr(ErrFilterLogs)
    /\ UNCHANGED <<nh, db, crit, lastTraversedHeader, synchronizerFrame>>

\* the node answers eth_getBlockByNumber(ToBlock)
PBFilterLogsHeader ==
    /\ syncer.pc = "filterLogs"
    /\ LET lastHeader == syncer.batch[Len(syncer.batch)]
       IN  /\ BlockAt(lastHeader.number) # ZeroHeader
           /\ syncer' = [syncer EXCEPT !.pc = "filterLogsAnswered",
                            !.logs.toBlockHeader = BlockAt(lastHeader.number)]
    /\ UNCHANGED <<nh, db, crit, lastTraversedHeader, synchronizerFrame>>

\* the node answers eth_getLogs and FilterLogs returns; then processBatch
\* up to the first transaction of retry.Do
PBFilterLogsReturns ==
    /\ syncer.pc = "filterLogsAnswered"
    /\ LET firstHeader == syncer.batch[1]
           lastHeader == syncer.batch[Len(syncer.batch)]
           logs == LogsOf(firstHeader.number, lastHeader.number)
           answered == [syncer EXCEPT !.logs.logs = logs]
           mismatch == ToBlockMismatch(syncer.logs.toBlockHeader, lastHeader)
       IN  IF lastHeader.number = NilNumber
           THEN /\ syncer' = [answered EXCEPT !.pc = "crashed", !.err = ErrPanic]
                /\ crit' = Append(crit, ErrPanic)
           ELSE IF mismatch # NilErr
           THEN /\ syncer' = PBReturnsErr(mismatch)
                /\ UNCHANGED crit
           ELSE /\ syncer' = [answered EXCEPT !.pc = "persist", !.attempt = 0]
                /\ UNCHANGED crit
    /\ UNCHANGED <<nh, db, lastTraversedHeader, synchronizerFrame>>

\* the transaction commits: retry.Do and processBatch return nil
PBTxCommits ==
    /\ syncer.pc = "persist"
    /\ db' = Append(db, [headers |-> BlockHeaderRows(syncer.batch),
                         events |-> ContractEvents(syncer.logs.logs, syncer.batch)])
    /\ syncer' = PBReturnsNil
    /\ UNCHANGED <<nh, crit, lastTraversedHeader, synchronizerFrame>>

\* the transaction fails: retry.Do sleeps and tries again, or returns the
\* error after its last attempt
PBTxFails ==
    /\ syncer.pc = "persist"
    /\ IF syncer.attempt + 1 < PersistAttempts
       THEN syncer' = [syncer EXCEPT !.attempt = @ + 1]
       ELSE syncer' = PBReturnsErr(ErrPersist)
    /\ UNCHANGED <<nh, db, crit, lastTraversedHeader, synchronizerFrame>>


NextSynchronizer ==
    \/ NewSynchronizer
    \/ NewSynchronizerNotFound
    \/ NewSynchronizerRpcFatal
    \/ Tick
    \/ NextHeadersReturned
    \/ PBAddressList
    \/ PBAddressListFails
    \/ PBFilterLogsFails
    \/ PBFilterLogsHeader
    \/ PBFilterLogsReturns
    \/ PBTxCommits
    \/ PBTxFails
    \/ NHLatest
    \/ NHLatestNotFound
    \/ NHRpcFatal
    \/ NHSingle
    \/ NHFetch
    \/ NHRangeFails
    \/ NHRangeReturns
    \/ ChainMine
    \/ ChainReorg
    \/ ChainRollback

SpecSynchronizer == InitSynchronizer /\ [][NextSynchronizer]_vars

\* The batch in syncer.headers is the first of a run that found no stored
\* header: nothing has been committed yet.
FirstBatchNoCursor ==
    db = << >> /\ syncer.headers # << >>

(***************************************************************************)
(* C22  When no cursor is persisted and a starting height is configured,   *)
(* the first batch the Synchronizer obtains is the blocks from the         *)
(* starting height on, at most maxBatchSize of them: the block at the      *)
(* starting height is part of the first batch.                             *)
(***************************************************************************)
C22_FirstBatchStartsAtStart ==
    (FirstBatchNoCursor /\ cfg.blockStep >= 1)
    => /\ Len(syncer.headers) <= cfg.blockStep
       /\ \A i \in 1..Len(syncer.headers) :
             syncer.headers[i].number = cfg.startingHeight + i - 1

\* Starting height 0 and block step 2 over an empty database: the first
\* transaction committed holds the blocks 1 and 2 and no row of block 0,
\* and the cursor is at block 2.
C22_Witness ==
    /\ cfg = [blockStep |-> 2, startingHeight |-> 0]
    /\ Len(db) = 1
    /\ Len(db[1].headers) = 4
    /\ db[1].headers[1] = ZeroBlockHeader
    /\ db[1].headers[3].number = 1
    /\ db[1].headers[4].number = 2
    /\ \A i \in 1..4 : db[1].headers[i].number # 0
    /\ lastTraversedHeader.number = 2
    /\ syncer.pc = "waiting"

\* the Synchronizer is inside processBatch
InProcessBatch ==
    syncer.pc \in {"addressList", "filterLogs", "filterLogsAnswered", "persist"}

\* The step is a tick of the loop that finds a batch pending.
TickWithPending ==
    syncer.pc = "waiting" /\ syncer.headers # << >> /\ syncer' # syncer

(***************************************************************************)
(* C26  On every tick at which a fetched batch is still pending, the       *)
(* Synchronizer does not call NextHeaders and processes that same batch    *)
(* again, with the same headers in the same order.                         *)
(***************************************************************************)
C26_PendingBatchIsRetried ==
    /\ [][TickWithPending
            => /\ nh' = nh
               /\ syncer'.pc = "addressList"
               /\ syncer'.retrying
               /\ syncer'.batch = syncer.headers
               /\ syncer'.headers = syncer.headers
               /\ lastTraversedHeader' = lastTraversedHeader]_vars
    /\ []((InProcessBatch /\ syncer.retrying)
            => (nh.pc = "idle" /\ syncer.batch = syncer.headers))

\* A batch of two headers that an earlier tick left pending is in its
\* transaction again, at the second attempt of retry.Do.
C26_Witness ==
    /\ syncer.retrying
    /\ syncer.pc = "persist"
    /\ syncer.attempt = 1
    /\ Len(syncer.batch) = 2
    /\ syncer.batch = syncer.headers

\* the rows of the transaction committed last
LastCommitted == db[Len(db)]

\* tx holds a row of every numbered header of the batch
HoldsBatch(tx, headers) ==
    \A i \in 1..Len(headers) :
        headers[i].number # NilNumber
        => \E k \in 1..Len(tx.headers) : tx.headers[k] = BlockHeaderOf(headers[i])

\* the errors processBatch returns
ProcessBatchErrors ==
    {ErrAddressList, ErrFilterLogs, ErrToBlockNumber, ErrToBlockHash, ErrPersist}

FilterLogsReturnsOtherHeader ==
    /\ syncer.pc = "filterLogsAnswered"
    /\ syncer' # syncer
    /\ syncer'.err # ErrFilterLogs
    /\ LET lastHeader == syncer.batch[Len(syncer.batch)]
       IN  \/ syncer.logs.toBlockHeader.number # lastHeader.number
           \/ Hash(syncer.logs.toBlockHeader) # Hash(lastHeader)

FatalTraversalErrors ==
    {ErrHeaderTraversalAheadOfProvider, ErrHeaderTraversalAndProviderMismatchedState}

\* The step is the one in which the loop gets a fatal error from NextHeaders
\* or in which the cross-validation of processBatch fails.
DivergenceDetected ==
    \/ /\ syncer.pc = "nextHeaders"
       /\ syncer' # syncer
       /\ nh.err \in FatalTraversalErrors
    \/ /\ syncer.pc = "filterLogsAnswered"
       /\ syncer'.err \in {ErrToBlockNumber, ErrToBlockHash}

(***************************************************************************)
(* C29  A cross-validation mismatch in processBatch, or a fatal            *)
(* HeaderTraversal error (ahead of provider, diverged), is escalated: in   *)
(* the step that detects it the Synchronizer hands an error to its         *)
(* critical-error handler.                                                 *)
(***************************************************************************)
C29_DivergenceIsEscalated ==
    [][DivergenceDetected => Len(crit') = Len(crit) + 1]_vars

\* NextHeaders reported that traversal and provider diverged, the loop is
\* waiting for its next tick and the handler was never called.
C29_Witness ==
    /\ syncer.pc = "waiting"
    /\ syncer.err = ErrHeaderTraversalAndProviderMismatchedState
    /\ crit = << >>

\* the process has ended inside NextHeaders
ExitedInNextHeaders ==
    nh.pc = "exited"

(***************************************************************************)
(* C30  A failure of the RPC that fetches the head header, the header      *)
(* range or the logs never ends the process or the loop: the process is    *)
(* never ended inside NextHeaders, and the loop that got such an error     *)
(* waits for its next tick.                                                *)
(***************************************************************************)
C30_RpcFailureIsSurvived ==
    /\ [](~ExitedInNextHeaders)
    /\ [][(syncer' # syncer /\ syncer'.err \in {ErrQueryingRange, ErrFilterLogs})
            => (syncer'.pc = "waiting" /\ crit' = crit)]_vars

\* The loop had persisted up to block 1 and was in NextHeaders when the RPC
\* for the head header failed: the process has ended.
C30_Witness ==
    /\ ExitedInNextHeaders
    /\ syncer.pc = "nextHeaders"
    /\ nh.start = 0
    /\ nh.count = 0
    /\ lastTraversedHeader.number = 1
    /\ Len(db) >= 1
    /\ HoldsBatch(LastCommitted, <<lastTraversedHeader>>)

(***************************************************************************)
(* The persistence of processBatch: retry.Do with 10 attempts and the      *)
(* strategy &retry.ExponentialStrategy{Min: 1000, Max: 20_000,             *)
(* MaxJitter: 250}.  The three numbers are time.Duration values, hence     *)
(* nanoseconds, and the durations of this part are in nanoseconds.         *)
(***************************************************************************)
\* time.Second and time.Millisecond, in nanoseconds
Second == 1000000000
Millisecond == 1000000

\* retryStrategy of processBatch
PersistStrategy == ExponentialStrategy(1000, 20000, 250)

\* ExponentialStrategy.Duration(attempt) in nanoseconds when the jitter
\* sampled is jitter.  durFloat is e.Min + 2^attempt * time.Second; the
\* test durFloat > float64(e.Max) is made on the whole seconds of
\* e.Max - e.Min, which keeps every number below 2^31.
ExponentialDurationNs(e, attempt, jitter) ==
    IF attempt < 0
    THEN e.Min + jitter
    ELSE LET pow == 2 ^ attempt
             exceeds == e.Max < e.Min \/ pow > (e.Max - e.Min) \div Second
             dur == IF exceeds THEN e.Max ELSE e.Min + pow * Second
         IN  dur + jitter

(***************************************************************************)
(* SpecPersist: the call of retry.Do in processBatch, whose op is the      *)
(* transaction that stores the rows.  Its context is resourceCtx, which    *)
(* nothing cancels.  The call is at "entry", "check", "op", "sleep" (with  *)
(* do.remaining the nanoseconds time.Sleep was called with, 0 once they    *)
(* have passed) or "returned".                                             *)
(***************************************************************************)
InitPersist ==
    /\ do = [IdleDo EXCEPT !.pc = "entry", !.maxAttempts = PersistAttempts]
    /\ doCtx = NilErr
    /\ strategy = PersistStrategy
    /\ opLog = << >>
    /\ sleeps = << >>
    /\ sendState = NilSendState
    /\ IdleHist
    /\ IdleChain
    /\ IdleWaitMined
    /\ threshold = 1
    /\ ctxcErr = NilErr
    /\ pcSend = "idle"
    /\ task = [a \in Attempts |-> IdleTask]
    /\ wg = 0
    /\ receiptChan = << >>
    /\ ret = NoResult
    /\ mineAtEpoch = 0
    /\ dropped = 0
    /\ IdleLock
    /\ IdleSync

\* the transaction fails: Do sleeps strategy.Duration(i), or goes on to the
\* loop head after its last attempt
PersistTxFails ==
    /\ do.pc = "op"
    /\ opLog' = Append(opLog, "fail")
    /\ IF SleepDue(do.i, do.maxAttempts)
       THEN \E jitter \in Jitters(strategy) :
               do' = [do EXCEPT !.pc = "sleep", !.ret = 0,
                                !.err = OpErr(Len(opLog) + 1),
                                !.remaining =
                                    ExponentialDurationNs(strategy, do.i, jitter)]
       ELSE do' = [do EXCEPT !.pc = "check", !.ret = 0,
                             !.err = OpErr(Len(opLog) + 1), !.i = do.i + 1]
    /\ UNCHANGED <<doCtx, strategy, sleeps, retryFrame>>

\* the time of time.Sleep passes
PersistSleepPasses ==
    /\ do.pc = "sleep"
    /\ do.remaining > 0
    /\ do' = [do EXCEPT !.remaining = 0]
    /\ UNCHANGED <<doCtx, strategy, opLog, sleeps, retryFrame>>

NextPersist ==
    \/ DoEntry
    \/ DoCheck
    \/ DoOpSucceeds
    \/ PersistTxFails
    \/ PersistSleepPasses
    \/ DoWake

SpecPersist == InitPersist /\ [][NextPersist]_vars

\* The step is the one in which Do starts to wait for its next attempt.
PersistWaitStarts ==
    do.pc = "op" /\ do'.pc = "sleep"

(***************************************************************************)
(* C31  The Synchronizer persists a batch with at most 10 attempts, and    *)
(* the wait between two consecutive attempts is never shorter than 1       *)
(* second and never longer than 20 seconds plus 250 milliseconds.          *)
(***************************************************************************)
C31_PersistenceBackoff ==
    /\ [](Len(opLog) <= 10)
    /\ [][PersistWaitStarts
            => /\ do'.remaining >= Second
               /\ do'.remaining \div Second <= 20
               /\ (do'.remaining \div Second = 20
                     => do'.remaining % Second <= 250 * Millisecond)]_vars

\* The first transaction failed and Do waits 20 microseconds and 249
\* nanoseconds for the second.
C31_Witness ==
    /\ do.pc = "sleep"
    /\ do.maxAttempts = 10
    /\ do.i = 0
    /\ Len(opLog) = 1
    /\ do.remaining = 20249

(***************************************************************************)
(* SpecSynchronizerClose: the Synchronizer of SpecSynchronizer, whose      *)
(* Close is called at some moment after NewSynchronizer returned it.       *)
(***************************************************************************)
\* a Synchronizer exists and its process runs
SynchronizerRuns ==
    syncer.pc \notin {"none", "new", "failed", "exited"} /\ nh.pc # "exited"

\* Close(): return nil
Close ==
    /\ SynchronizerRuns
    /\ ~syncer.closed
    /\ syncer' = [syncer EXCEPT !.closed = TRUE]
    /\ UNCHANGED <<nh, db, crit, lastTraversedHeader, synchronizerFrame>>

NextSynchronizerClose ==
    \/ Close
    \/ NewSynchronizer
    \/ NewSynchronizerNotFound
    \/ NewSynchronizerRpcFatal
    \/ Tick
    \/ NextHeadersReturned
    \/ PBAddressList
    \/ PBAddressListFails
    \/ PBFilterLogsFails
    \/ PBFilterLogsHeader
    \/ PBFilterLogsReturns
    \/ PBTxCommits
    \/ PBTxFails
    \/ NHLatest
    \/ NHLatestNotFound
    \/ NHRpcFatal
    \/ NHSingle
    \/ NHFetch
    \/ NHRangeFails
    \/ NHRangeReturns
    \/ ChainMine
    \/ ChainReorg
    \/ ChainRollback

SpecSynchronizerClose == InitSynchronizer /\ [][NextSynchronizerClose]_vars

(***************************************************************************)
(* C32  After Close is called the loop finishes or abandons its current    *)
(* iteration and starts no other: once Close has returned, the loop that   *)
(* waits for its ticker takes no further tick, so that no NextHeaders call *)
(* and no processBatch is started, and the transaction of a batch is       *)
(* started only by the iteration that was under way.                       *)
(***************************************************************************)
C32_CloseStopsLoop ==
    [][(syncer.closed /\ syncer.pc = "waiting")
         => (syncer' = syncer /\ nh' = nh /\ db' = db)]_vars

\* Close was called while the loop waited with nothing pending; the loop
\* has taken a tick since and is inside NextHeaders.
C32_Witness ==
    /\ syncer.closed
    /\ syncer.pc = "nextHeaders"
    /\ nh.pc = "latest"
    /\ ~syncer.retrying
    /\ syncer.headers = << >>

\* the block numbers of the rows of a transaction that have one, in order
RECURSIVE HeightsOf(_)
HeightsOf(rows) ==
    IF rows = << >> THEN << >>
    ELSE IF Head(rows).number = NilNumber THEN HeightsOf(Tail(rows))
    ELSE <<Head(rows).number>> \o HeightsOf(Tail(rows))

\* the heights of the k-th committed transaction
Heights(k) == HeightsOf(db[k].headers)

\* the height NextHeaders starts from after NewSynchronizer over an empty
\* database
InitialNextHeight ==
    IF cfg.blockStep > 0 THEN cfg.startingHeight + 1 ELSE 0

Launched(a) == task[a].pc = "idle" /\ task'[a].pc # "idle"

\* some variant is recorded as mined in the SendState of the call
RecordedMined == sendState # NilSendState /\ sendState.minedTxs # {}

(***************************************************************************)
(* C34  Resubmission gating.  Leaving its start, Send launches the first   *)
(* attempt in the same step, before any tick.  Every other attempt is      *)
(* launched by a tick of the resubmission timer taken while no variant is  *)
(* recorded as mined; a tick taken while Send is in its loop and no        *)
(* variant is recorded as mined launches exactly the next attempt, and     *)
(* while a variant is recorded as mined no step launches an attempt.       *)
(***************************************************************************)
C34_ResubmissionGating ==
    /\ [][pcSend = "start" /\ pcSend' # "start"
            => /\ Launched(1)
               /\ task'[1].pc = "price"
               /\ wg' = wg + 1
               /\ \A a \in Attempts \ {1} : ~Launched(a)]_vars
    /\ [][\A a \in Attempts :
            (Launched(a) /\ pcSend # "start")
            => /\ pcSend = "select" /\ pcSend' = "select"
               /\ ~RecordedMined
               /\ a = NextAttempt
               /\ task'[a].pc = "price"
               /\ wg' = wg + 1
               /\ \A b \in Attempts \ {a} : task'[b] = task[b]]_vars
    /\ [][RecordedMined => \A a \in Attempts : ~Launched(a)]_vars
    /\ []((pcSend = "select" /\ ~RecordedMined
             /\ \E a \in Attempts : task[a].pc = "idle")
            => ENABLED (SendTick /\ Launched(NextAttempt)))

\* A tick has launched the second attempt while the first one, whose variant
\* the backend accepted, polls for a receipt that is not there.
C34_Witness ==
    /\ pcSend = "select"
    /\ task[1].pc \in {"receipt", "select"}
    /\ task[2].pc = "price"
    /\ 1 \in pending
    /\ ~RecordedMined
    /\ wg = 2

\* attempt a has returned from a failed updateGasPrice
PriceFailed(a) == task[a].pc = "done" /\ task[a].err # NilErr

\* attempt a has returned from an updateGasPrice error that is no cancellation
PriceFatal(a) == PriceFailed(a) /\ ~IsCancelErr(task[a].err)

\* attempt a returns from updateGasPrice with an error in this step
PriceFailing(a) == task[a].pc = "price" /\ task'[a].pc = "done"

\* Send takes its result in this step
TakesResult == ~SendHasResult /\ SendHasResult'

\* What an attempt's pricing error does by itself: the attempt returns
\* without having called sendTx or the receipt query; an error that is no
\* cancellation cancels the derived context, a cancellation leaves it alone;
\* and after an error that is no cancellation Send can return the context's
\* error.
PricingErrorEndsAttempt ==
    /\ [][\A a \in Attempts :
            PriceFailing(a)
            => /\ task'[a].tx = 0 /\ task'[a].receipt = NilReceipt
               /\ wg' = wg - 1
               /\ <<sendState, pending, minedAt, receiptChan, pcSend, ret>>'
                    = <<sendState, pending, minedAt, receiptChan, pcSend, ret>>
               /\ \A b \in Attempts \ {a} : task'[b] = task[b]
               /\ IF IsCancelErr(task'[a].err)
                  THEN ctxcErr' = ctxcErr
                  ELSE ctxcErr' # NilErr /\ ctxcErr' = Cancel(ctxcErr)]_vars
    /\ [](\A a \in Attempts :
            PriceFailed(a) => (a \notin pending /\ a \notin sendState.minedTxs))
    /\ [](\A a \in Attempts :
            PriceFatal(a)
            => /\ ctxcErr # NilErr
               /\ pcSend = "select" => ENABLED SendCtxDone)

(***************************************************************************)
(* C35 as stated.  A pricing error that is no cancellation is fatal for    *)
(* the Send call: the failing attempt calls neither sendTx nor the receipt *)
(* query and cancels the derived context, and the result Send takes        *)
(* afterwards is a non-nil error and a nil receipt; a pricing error that   *)
(* is a cancellation ends the attempt only.                                *)
(***************************************************************************)
C35_AsStated ==
    /\ PricingErrorEndsAttempt
    /\ [][(TakesResult /\ \E a \in Attempts : PriceFatal(a))
            => (ret'.err # NilErr /\ ret'.receipt = NilReceipt)]_vars

(***************************************************************************)
(* C35  A pricing error that is no cancellation cancels the derived        *)
(* context, and the failing attempt calls neither sendTx nor the receipt   *)
(* query; the result Send takes afterwards is the derived context's error  *)
(* and a nil receipt, or the receipt a sibling attempt has put on          *)
(* receiptChan and a nil error; a pricing error that is a cancellation     *)
(* ends the attempt only.                                                  *)
(***************************************************************************)
C35_PricingErrorCancels ==
    /\ PricingErrorEndsAttempt
    /\ [][(TakesResult /\ \E a \in Attempts : PriceFatal(a))
            => \/ ret' = [receipt |-> NilReceipt, err |-> ctxcErr]
               \/ /\ Len(receiptChan) = 1
                  /\ ret' = [receipt |-> Head(receiptChan), err |-> NilErr]]_vars

\* The second attempt's updateGasPrice failed with an error that is no
\* cancellation while the first attempt's confirmed receipt was on
\* receiptChan, and Send has returned that receipt.
C35_Witness ==
    /\ PriceFatal(2)
    /\ task[1].pc = "done" /\ task[1].err = NilErr
    /\ pcSend = "returned"
    /\ ret.receipt # NilReceipt
    /\ ret.receipt.TxHash = 1
    /\ ret.err = NilErr

\* The first attempt's updateGasPrice failed with an error that is no
\* cancellation, and Send has returned the cancellation error.
C35_FatalWitness ==
    /\ PriceFatal(1)
    /\ ctxErr = NilErr
    /\ pcSend = "returned"
    /\ ret = [receipt |-> NilReceipt, err |-> ErrCanceled]

\* attempt a's sendTx returns in this step
SendTxReturns(a) == task[a].pc = "send" /\ task'[a].pc # "send"

\* attempt a takes its abort decision in this step
AbortDecided(a) == task[a].pc = "abort" /\ task'[a].pc # "abort"

\* Send has returned the derived context's error and no receipt
ReturnedCtxcErr ==
    /\ pcSend = "returned"
    /\ ctxcErr # NilErr
    /\ ret = [receipt |-> NilReceipt, err |-> ctxcErr]

(***************************************************************************)
(* C36  The step in which an attempt's sendTx returns records the outcome  *)
(* in SendState: the nonce-too-low count grows by one exactly when the     *)
(* error is nonce-too-low, and the attempt goes on to poll only when       *)
(* sendTx returned nil.  The abort decision is taken in a later step of    *)
(* the attempt, on the SendState of that moment: it cancels the derived    *)
(* context exactly when no variant is recorded as mined and the count has  *)
(* reached the threshold, and the attempt returns without polling either   *)
(* way.  Hence, while no variant is recorded as mined: once threshold      *)
(* sendTx calls have failed with nonce-too-low and their attempts have     *)
(* taken the decision, the derived context is cancelled, and Send returns  *)
(* that context's error (context.Canceled when the caller's context is     *)
(* alive) unless a variant is recorded as mined after all; and Send        *)
(* returns an error while the caller's context is alive only after         *)
(* threshold nonce-too-low failures.                                       *)
(***************************************************************************)
C36_AbortAfterRecordedFailures ==
    /\ [][\A a \in Attempts :
            SendTxReturns(a)
            => /\ sendState'.minedTxs = sendState.minedTxs
               /\ sendState'.nonceTooLowCount - sendState.nonceTooLowCount
                    = nonceTooLowSeen' - nonceTooLowSeen
               /\ ctxcErr' = ctxcErr
               /\ task'[a].pc \in {"abort", "receipt"}
               /\ task'[a].pc = "receipt" <=> task[a].tx \in pending']_vars
    /\ [][\A a \in Attempts :
            AbortDecided(a)
            => /\ task'[a] = DoneTask
               /\ sendState' = sendState
               /\ IF /\ sendState.minedTxs = {}
                     /\ sendState.nonceTooLowCount >= threshold
                  THEN ctxcErr' # NilErr
                  ELSE ctxcErr' = ctxcErr]_vars
    /\ []((/\ pcSend # "start"
           /\ ~RecordedMined
           /\ nonceTooLowSeen >= threshold
           /\ \A a \in Attempts : task[a].pc # "abort")
            => ctxcErr # NilErr)
    /\ []((pcSend # "start" /\ nonceTooLowSeen >= threshold)
            => <>(RecordedMined \/ ReturnedCtxcErr))
    /\ []((SendHasResult /\ ret.err # NilErr /\ ctxErr = NilErr)
            => (ret.err = ErrCanceled /\ nonceTooLowSeen >= threshold))

\* With threshold 2 and nothing mined both attempts have failed with
\* nonce-too-low, the second one has cancelled the derived context, and
\* Send has returned context.Canceled.
C36_Witness ==
    /\ threshold = 2
    /\ NeverMined
    /\ ctxErr = NilErr
    /\ sendState.nonceTooLowCount = 2
    /\ \A a \in Attempts : task[a] = DoneTask
    /\ pcSend = "returned"
    /\ ret = [receipt |-> NilReceipt, err |-> ErrCanceled]

\* attempt a is in waitMined
Watching(a) == task[a].pc \in {"receipt", "blocknum", "select"}

\* attempt a's TransactionReceipt query returns in this step
ReceiptQueried(a) == task[a].pc = "receipt" /\ task'[a].pc # "receipt"

\* attempt a's BlockNumber query returns in this step
BlockNumberQueried(a) == task[a].pc = "blocknum" /\ task'[a].pc # "blocknum"

(***************************************************************************)
(* C37  The confirmation watcher of an attempt leaves waitMined in two     *)
(* ways only: from its select, when the derived context is done, with no   *)
(* receipt to hand over; or from a block-number query that succeeded and   *)
(* found the receipt it holds confirmed, with that receipt.  A receipt     *)
(* query that fails leaves SendState as it is and sends the watcher to its *)
(* select; an absent receipt takes the hash out of the mined set and sends *)
(* the watcher to its select; a present receipt puts the hash into the     *)
(* mined set, and the block-number query that follows changes nothing in   *)
(* SendState: when it fails the mark stays and the watcher goes to its     *)
(* select, and when it succeeds on a confirmed receipt the watcher returns *)
(* the receipt, whatever failed before.  From its select the watcher can   *)
(* always take the next tick, which leads to the next receipt query.       *)
(***************************************************************************)
C37_WatcherExits ==
    /\ [][\A a \in Attempts :
            (Watching(a) /\ ~Watching(a)')
            => \/ /\ task[a].pc = "select"
                  /\ ctxcErr # NilErr
                  /\ task'[a] = DoneTask
                  /\ receiptChan' = receiptChan
                  /\ sendState' = sendState
               \/ /\ task[a].pc = "blocknum"
                  /\ task'[a].pc = "returned"
                  /\ task'[a].receipt = task[a].receipt
                  /\ task'[a].receipt.TxHash = task[a].tx
                  /\ task'[a].err = NilErr
                  /\ task[a].receipt.BlockNumber + numConfirmations
                       <= blockHeight + 1]_vars
    /\ [][\A a \in Attempts :
            ReceiptQueried(a)
            => LET tx == task[a].tx
               IN  \/ /\ task'[a].pc = "blocknum"
                      /\ task'[a].receipt # NilReceipt
                      /\ sendState'.minedTxs = sendState.minedTxs \cup {tx}
                      /\ sendState'.nonceTooLowCount = sendState.nonceTooLowCount
                   \/ /\ task'[a].pc = "select"
                      /\ task'[a].err # NilErr
                      /\ sendState' = sendState
                   \/ /\ task'[a].pc = "select"
                      /\ task'[a].err = NilErr
                      /\ minedAt[tx] = 0
                      /\ sendState'.minedTxs = sendState.minedTxs \ {tx}]_vars
    /\ [][\A a \in Attempts :
            BlockNumberQueried(a)
            => /\ sendState' = sendState
               /\ task[a].tx \in sendState.minedTxs
                    => task[a].tx \in sendState'.minedTxs
               /\ IF task'[a].err # NilErr
                  THEN task'[a].pc = "select"
                  ELSE IF task[a].receipt.BlockNumber + numConfirmations
                            <= blockHeight + 1
                       THEN task'[a].pc = "returned"
                       ELSE task'[a].pc = "select"]_vars
    /\ [](\A a \in Attempts :
            task[a].pc = "select"
            => ENABLED (WatchQueryTick(a) /\ task'[a].pc = "receipt"))

\* The variant of the first attempt is mined and recorded as mined, and the
\* block-number query of that poll has failed: the watcher waits for its
\* next tick and the mark is still there.
C37_Witness ==
    /\ task[1].pc = "select"
    /\ task[1].err # NilErr
    /\ minedAt[1] > 0
    /\ 1 \in sendState.minedTxs
    /\ ctxcErr = NilErr

(***************************************************************************)
(* C38  Once an attempt has put a confirmed receipt on receiptChan, the    *)
(* result Send takes is that receipt and a nil error, also when the        *)
(* derived context is cancelled before Send reads the channel.             *)
(***************************************************************************)
C38_HandedOffReceiptIsReturned ==
    [][(TakesResult /\ Len(receiptChan) = 1)
         => ret' = [receipt |-> Head(receiptChan), err |-> NilErr]]_vars

\* The first attempt's confirmed receipt is on receiptChan, the caller's
\* context is alive, the second attempt's pricing error has cancelled the
\* derived context, and Send has returned context.Canceled.
C38_Witness ==
    /\ Len(receiptChan) = 1
    /\ Head(receiptChan).TxHash = 1
    /\ PriceFatal(2)
    /\ ctxErr = NilErr
    /\ pcSend = "returned"
    /\ ret = [receipt |-> NilReceipt, err |-> ErrCanceled]

\* processBatch's transaction commits in this step
Commits == Len(db') = Len(db) + 1

(***************************************************************************)
(* C39  The records of a committed transaction: for the batch of n headers *)
(* and the m logs FilterLogs returned, the header records are n, the i-th  *)
(* one made from the i-th header of the batch, and the event records are   *)
(* m, the i-th one carrying the block hash of the i-th log and the         *)
(* timestamp of the batch header with that hash; none of the records is    *)
(* the zero record.                                                        *)
(***************************************************************************)
C39_ExactRecords ==
    [][Commits
        => LET rec == LastCommitted'
               batch == syncer.batch
               logs == syncer.logs.logs
           IN  /\ Len(rec.headers) = Len(batch)
               /\ \A i \in 1..Len(rec.headers) :
                     /\ rec.headers[i] # ZeroBlockHeader
                     /\ i <= Len(batch) => rec.headers[i] = BlockHeaderOf(batch[i])
               /\ Len(rec.events) = Len(logs)
               /\ \A i \in 1..Len(rec.events) :
                     /\ rec.events[i] # ZeroEvent
                     /\ rec.events[i].blockHash = logs[i]
                     /\ \E j \in 1..Len(batch) :
                           /\ Hash(batch[j]) = logs[i]
                           /\ rec.events[i].timestamp = batch[j].salt]_vars

\* The batch of the one header of block 1 and its one log was committed as
\* two header records, the zero record and the record of block 1, and one
\* event record.
C39_Witness ==
    /\ Len(db) = 1
    /\ Len(chain) >= 2
    /\ db[1].headers = <<ZeroBlockHeader, BlockHeaderOf(chain[2])>>
    /\ db[1].events = <<[blockHash |-> Hash(chain[2]), timestamp |-> chain[2].salt]>>
    /\ syncer.pc = "waiting"
    /\ syncer.headers = << >>

(***************************************************************************)
(* SpecSynchronizerFair: the Synchronizer of SpecSynchronizer under fair   *)
(* scheduling: the ticker fires again and again, and every call the loop   *)
(* has made returns, with an answer or with a failure.  Nothing is         *)
(* required of the node's chain.                                           *)
(***************************************************************************)
\* a step of the Synchronizer's construction, of its loop or of a call the
\* loop has made
SynchronizerStep ==
    \/ NewSynchronizer
    \/ NewSynchronizerNotFound
    \/ NewSynchronizerRpcFatal
    \/ Tick
    \/ NextHeadersReturned
    \/ PBAddressList
    \/ PBAddressListFails
    \/ PBFilterLogsFails
    \/ PBFilterLogsHeader
    \/ PBFilterLogsReturns
    \/ PBTxCommits
    \/ PBTxFails
    \/ NHLatest
    \/ NHLatestNotFound
    \/ NHRpcFatal
    \/ NHSingle
    \/ NHFetch
    \/ NHRangeFails
    \/ NHRangeReturns

FairnessSynchronizer == WF_vars(SynchronizerStep)

SpecSynchronizerFair ==
    InitSynchronizer /\ [][NextSynchronizer]_vars /\ FairnessSynchronizer

\* A step that is not an answer consistent with one canonical chain or a
\* successful database call: the node replaces or drops its tip, an RPC
\* fails or answers null for a block the chain has, the address list query
\* or the transaction fails.
Disturbance ==
    \/ ChainReorg
    \/ ChainRollback
    \/ NewSynchronizerRpcFatal
    \/ NHLatestNotFound
    \/ NHRpcFatal
    \/ NHRangeFails
    \/ PBAddressListFails
    \/ /\ PBFilterLogsFails
       /\ BlockAt(syncer.batch[Len(syncer.batch)].number) # ZeroHeader
    \/ PBTxFails

\* from some point on there is no disturbance
Settled == <>[][~Disturbance]_vars

\* the cursor is on the block blockConfirmationDepth below the node's tip
CursorAtSafeHead ==
    /\ lastTraversedHeader # NilHeader
    /\ lastTraversedHeader.number = Tip.number - blockConfirmationDepth

\* the Synchronizer was not built, or its loop has ended with the process
\* or in a panic
LoopEnded ==
    \/ syncer.pc \in {"failed", "exited", "crashed"}
    \/ nh.pc \in {"exited", "panicked"}

(***************************************************************************)
(* C40  Sync progress.  If from some point on the node's chain only grows, *)
(* every call is answered consistently with it and the database calls      *)
(* succeed, then, as long as the loop runs, a pending batch is eventually  *)
(* persisted and cleared, and the cursor eventually is, and stays, on the  *)
(* block blockConfirmationDepth below the tip.                             *)
(***************************************************************************)
C40_SyncProgress ==
    Settled
    => /\ HasPending(syncer.headers) ~> (~HasPending(syncer.headers) \/ LoopEnded)
       /\ <>[](CursorAtSafeHead \/ LoopEnded)

\* The loop waits for its ticker with the cursor on block 1, and the node
\* has replaced block 1 by another block: every NextHeaders call from now
\* on finds the two diverged.
C40_Witness ==
    /\ syncer.pc = "waiting"
    /\ ~HasPending(syncer.headers)
    /\ Len(chain) = 2
    /\ lastTraversedHeader # NilHeader
    /\ lastTraversedHeader.number = 1
    /\ lastTraversedHeader # chain[2]

=============================================================================
